---- MODULE Spec2Model ----
(***************************************************************************)
(* Distributed Coordination Layer of IWDC, seen from one process (the      *)
(* local instance).  Peers are the environment: they deliver heartbeats    *)
(* and votes and answer (or fail) the requests the local instance sends.   *)
(*                                                                         *)
(* State: Coordinator State (leader, participants), the Sync Engine's      *)
(* active proposals and its propose calls suspended in the broadcast, the  *)
(* Lock Service's lock table and renewal timers, and the clock Date.now(). *)
(* lastOp and applyCount are observation variables: the operation that    *)
(* ran last with what it returned, applied and published, and the number   *)
(* of times the apply step was invoked for each proposal id.  created      *)
(* counts the propose calls that stored a proposal, and run holds the two  *)
(* copies of one proposal that OrderSpec feeds the same votes in two       *)
(* orders.  elections holds the performElection calls suspended in their   *)
(* health probes; cluster holds, in ClusterSpec only, the leader and the   *)
(* election cycle of every process of the cluster.  bus, conflict,         *)
(* identity, journal, timeSync and periodic hold the state of the Event    *)
(* Bus, the inputs and result of Conflict Resolution, the Instance         *)
(* Identity, the Event Journal, Time Sync and the periodic timers; each    *)
(* has a specification of its own and stays at its initial value in the    *)
(* others.                                                                 *)
(***************************************************************************)
EXTENDS Integers, Sequences, FiniteSets, TLC

VARIABLES now, leader, participants, activeProposals, calls, created,
          applyCount, hbInFlight, elections, cluster, activeLocks,
          renewalTimers, lastOp, run, bus, conflict, identity, journal,
          timeSync, periodic

vars == <<now, leader, participants, activeProposals, calls, created,
          applyCount, hbInFlight, elections, cluster, activeLocks,
          renewalTimers, lastOp, run, bus, conflict, identity, journal,
          timeSync, periodic>>

\* the state of the Event Bus, the conflict resolution inputs, the instance
\* identity, the Event Journal, Time Sync and the periodic timers
extVars == <<bus, conflict, identity, journal, timeSync, periodic>>

(***************************************************************************)
(* Bounds of the model.                                                    *)
(***************************************************************************)
MaxTicks == 1
MaxProposals == 1
MaxRepeats == 2
MaxHbInFlight == 1
MaxVotes == 3
MaxLeaseTicks == 3
MaxHeartbeatTicks == 2
MaxElections == 1

(***************************************************************************)
(* Program constants (milliseconds).                                       *)
(***************************************************************************)
LOCK_TTL == 30000
LOCK_RENEWAL_INTERVAL == 10000
HEARTBEAT_TIMEOUT == 15000

\* The clock is observed every ClockStep ms, starting at StartTime; two
\* operations with no Tick between them read the same Date.now().
ClockStep == LOCK_RENEWAL_INTERVAL
StartTime == ClockStep
EndTime == StartTime + MaxTicks * ClockStep
LeaseEndTime == StartTime + MaxLeaseTicks * ClockStep
HeartbeatEndTime == StartTime + MaxHeartbeatTicks * ClockStep

(***************************************************************************)
(* Instances.  getInstanceId() is cached for the process lifetime; the     *)
(* static discovery list names the remote instances in order.              *)
(***************************************************************************)
getInstanceId == "A"
listInstances == <<"B", "C">>
Peers == {listInstances[i] : i \in 1..Len(listInstances)}
InstanceIds == {getInstanceId} \cup Peers

\* instances.filter(inst => inst.id !== localInstanceId)
remoteInstances == SelectSeq(listInstances, LAMBDA i : i # getInstanceId)

(***************************************************************************)
(* JavaScript Map as a function with a finite domain.                      *)
(***************************************************************************)
EmptyMap == [k \in {} |-> 0]
MapSet(m, k, v) == [x \in (DOMAIN m) \cup {k} |-> IF x = k THEN v ELSE m[x]]
MapDelete(m, k) == [x \in (DOMAIN m) \ {k} |-> m[x]]
MapHas(m, k) == k \in DOMAIN m

(***************************************************************************)
(* Coordinator State                                                       *)
(***************************************************************************)
\* coordinatorState.leader === null
NullLeader == [id |-> "null", electedAt |-> 0, lastHeartbeat |-> 0]

setLeader(leaderId, t) == [id |-> leaderId, electedAt |-> t, lastHeartbeat |-> t]

\* Faulty variant of isLeader: an instance with no leader recorded counts
\* itself as the leader.
isLeaderWhenNoLeader(ldr) ==
  IF ldr = NullLeader THEN TRUE ELSE ldr.id = getInstanceId

isLeader(ldr) == IF ldr = NullLeader THEN FALSE ELSE ldr.id = getInstanceId

updateLeaderHeartbeat(ldr, t) ==
  IF ldr # NullLeader THEN [ldr EXCEPT !.lastHeartbeat = t] ELSE ldr

\* { id, lastHeartbeat: Date.now(), status: info.status || 'healthy',
\*   uptime: info.uptime || 0, ...info }: a field given in info wins.
updateParticipant(parts, participantId, info, t) ==
  MapSet(parts, participantId,
         [id |-> participantId,
          lastHeartbeat |-> IF "lastHeartbeat" \in DOMAIN info
                            THEN info.lastHeartbeat ELSE t,
          status |-> IF "status" \in DOMAIN info THEN info.status ELSE "healthy",
          uptime |-> IF "uptime" \in DOMAIN info THEN info.uptime ELSE 0])

removeParticipant(parts, participantId) == MapDelete(parts, participantId)

\* participants.length of getParticipants()
getParticipants(parts) == DOMAIN parts

getHealthyParticipantsCount(parts) ==
  Cardinality({p \in DOMAIN parts :
                 parts[p].status = "healthy" \/ parts[p].status = "degraded"})

\* process.uptime() * 1000, the process having started at time 0
processUptime(t) == t

(***************************************************************************)
(* Sync Engine: quorum                                                     *)
(***************************************************************************)
\* Math.ceil(total / 2)
\* Faulty variant of CeilHalf: a strict majority, floor(total / 2) + 1.
StrictMajority(total) == total \div 2 + 1

CeilHalf(total) == (total + 1) \div 2

\* Faulty variant of checkQuorum: the health of the participants is ignored.
checkQuorumIgnoringHealth(parts) ==
  LET total == Cardinality(getParticipants(parts)) + 1
      healthy == getHealthyParticipantsCount(parts) + 1
      required == CeilHalf(total)
  IN  [total |-> total, healthy |-> healthy, required |-> required,
       sufficient |-> TRUE]

checkQuorum(parts) ==
  LET total == Cardinality(getParticipants(parts)) + 1
      healthy == getHealthyParticipantsCount(parts) + 1
      required == CeilHalf(total)
  IN  [total |-> total, healthy |-> healthy, required |-> required,
       sufficient |-> healthy >= required]

acceptVotesOf(proposal) ==
  Cardinality({v \in DOMAIN proposal.votes : proposal.votes[v].vote = "accept"})

\* Faulty variant of checkQuorumForProposal: every recorded vote counts,
\* accept or reject.
checkQuorumForProposalAnyVote(proposal, parts) ==
  LET total == Cardinality(getParticipants(parts)) + 1
      required == CeilHalf(total)
  IN  Cardinality(DOMAIN proposal.votes) >= required

\* Faulty variant of checkQuorumForProposal: the threshold is derived from
\* the configured remote instances instead of the participants map.
checkQuorumForProposalConfigured(proposal, parts) ==
  LET total == Len(remoteInstances) + 1
      required == CeilHalf(total)
  IN  acceptVotesOf(proposal) >= required

checkQuorumForProposal(proposal, parts) ==
  LET total == Cardinality(getParticipants(parts)) + 1
      required == CeilHalf(total)
  IN  acceptVotesOf(proposal) >= required

(***************************************************************************)
(* Sync Engine: proposals                                                  *)
(***************************************************************************)
\* A version is a sequence of dash-free segments; the proposal id is the
\* dash-joined string `${type}-${...}-${Date.now()}`, i.e. the concatenation
\* of the segments.
Versions == {<<"1.0">>}
DiffPairs == {[from |-> <<"1.0">>, to |-> <<"1.1">>]}

snapshotProposalId(snapshotData, t) == <<"snapshot">> \o snapshotData.version \o <<t>>
diffProposalId(diffData, t) == <<"diff">> \o diffData.from \o diffData.to \o <<t>>

newProposal(proposalId, type, data, t) ==
  [id |-> proposalId, type |-> type, data |-> data, proposer |-> getInstanceId,
   timestamp |-> t, votes |-> EmptyMap]

\* proposal.votes.set(voterId, { vote, timestamp: Date.now() })
recordVote(proposal, voterId, vote, t) ==
  [proposal EXCEPT !.votes = MapSet(@, voterId, [vote |-> vote, timestamp |-> t])]

\* Faulty variant of proposalsAfterVote: the proposal is never deleted.
proposalsAfterVoteNeverDeleted(ap, proposal, quorumReached, applyOk) ==
  MapSet(ap, proposal.id, proposal)

\* Faulty variant of proposalsAfterVote: a proposal that holds a reject vote
\* is dropped.
proposalsAfterVoteDroppingRejected(ap, proposal, quorumReached, applyOk) ==
  IF quorumReached \/ \E v \in DOMAIN proposal.votes :
                        proposal.votes[v].vote = "reject"
  THEN MapDelete(ap, proposal.id)
  ELSE MapSet(ap, proposal.id, proposal)

\* The active set after collectVote has handled a vote: the proposal is
\* deleted when quorum was reached, whatever the apply step did (applyOk),
\* and otherwise stays with the vote recorded.
proposalsAfterVote(ap, proposal, quorumReached, applyOk) ==
  IF quorumReached THEN MapDelete(ap, proposal.id)
                   ELSE MapSet(ap, proposal.id, proposal)

\* applySnapshot / applyDiff: the body has no await, so it runs inside the
\* caller.  On success it publishes the accept event; a failure is counted
\* and rethrown to the caller.
acceptEventOf(type) == IF type = "snapshot" THEN "SNAPSHOT_ACCEPT" ELSE "DIFF_ACCEPT"
applyPublished(type, applyOk) == IF applyOk THEN <<acceptEventOf(type)>> ELSE <<>>

\* collectVote(proposalId, voterId, vote) on active set ap: the new active
\* set, the apply invocations it made (with the proposal they were made
\* for and the size of the participants map at that moment) and what it
\* returned and published.
collectVote(ap, parts, proposalId, voterId, vote, t, applyOk) ==
  IF ~MapHas(ap, proposalId)
  THEN [proposals |-> ap, applied |-> <<>>, published |-> <<>>,
        result |-> [success |-> FALSE, reason |-> "proposal_not_found"]]
  ELSE LET proposal == recordVote(ap[proposalId], voterId, vote, t)
           quorumReached == checkQuorumForProposal(proposal, parts)
       IN  [proposals |-> proposalsAfterVote(ap, proposal, quorumReached, applyOk),
            applied |-> IF quorumReached
                        THEN <<[type |-> proposal.type, data |-> proposal.data,
                                ok |-> applyOk, proposalId |-> proposalId,
                                votes |-> proposal.votes,
                                participantsCount |->
                                  Cardinality(getParticipants(parts))]>>
                        ELSE <<>>,
            published |-> IF quorumReached
                          THEN applyPublished(proposal.type, applyOk) ELSE <<>>,
            result |-> [success |-> TRUE, proposalId |-> proposalId,
                        vote |-> vote, quorumReached |-> quorumReached,
                        votesCount |-> Cardinality(DOMAIN proposal.votes)]]

\* The outcomes of the apply step a collectVote call can meet: it succeeds
\* or fails when the call reaches quorum, and does not run otherwise.
applyOutcomes(ap, parts, proposalId, voterId, vote, t) ==
  IF collectVote(ap, parts, proposalId, voterId, vote, t, TRUE).applied # <<>>
  THEN BOOLEAN ELSE {TRUE}

\* Voter voterId's recorded vote on active proposal proposalId is `vote`.
hasVoted(ap, proposalId, voterId, vote) ==
  /\ MapHas(ap, proposalId)
  /\ MapHas(ap[proposalId].votes, voterId)
  /\ ap[proposalId].votes[voterId].vote = vote

\* Remove element i of a sequence.
RemoveAt(s, i) == SubSeq(s, 1, i - 1) \o SubSeq(s, i + 1, Len(s))

SnapshotInputs == {[version |-> v, hash |-> "h"] : v \in Versions}
DiffInputs == {[from |-> d.from, to |-> d.to, hash |-> "h"] : d \in DiffPairs}
Times == {StartTime + k * ClockStep : k \in 0..MaxTicks}
ProposalIds == {snapshotProposalId(s, t) : s \in SnapshotInputs, t \in Times}
                 \cup {diffProposalId(d, t) : d \in DiffInputs, t \in Times}
VoteValues == {"accept", "reject"}
\* the remote instances whose votes are delivered
RemoteVoters == {"B"}

\* applyCount' after the apply invocations of one handler
countApplied(count, applied) ==
  [id \in DOMAIN count |->
     count[id] + Cardinality({i \in 1..Len(applied) : applied[i].proposalId = id})]

(***************************************************************************)
(* Initial state: the state after module load.                             *)
(***************************************************************************)
\* lastOp when the last step returned nothing to a caller of the Sync Engine
\* or the Lock Service (a clock tick, a heartbeat, a send that resolved).
NoOp == [op |-> "none", applied |-> <<>>, published |-> <<>>]

NoRun == [phase |-> "none"]

\* cluster outside ClusterSpec: no other process is followed.
NoCluster == [i \in {} |-> 0]

(***************************************************************************)
(* Initial state of the Event Bus, the conflict resolution inputs, the     *)
(* instance identity, the Event Journal, Time Sync and the periodic        *)
(* timers.                                                                 *)
(***************************************************************************)
\* eventQueue and isProcessing are the bus's own state; drains holds the
\* processQueue activations suspended in a handler, published the events in
\* publication order and log the handler invocations in invocation order
InitBus ==
  [eventQueue |-> <<>>, isProcessing |-> FALSE, drains |-> <<>>,
   published |-> <<>>, log |-> <<>>]

NoConflict == [op |-> "none"]

\* the identity module: its cache, the identity record on disk, the number
\* of ids randomUUID has produced and of writes of the record, and the ids
\* the calls of the running process have returned
NoId == 0
InitIdentity ==
  [cachedInstanceId |-> NoId, file |-> NoId, generated |-> 0, writes |-> 0,
   returned |-> {}]

\* the journal: whether its directory and its file exist, and the lines of
\* the file
InitJournal == [dir |-> FALSE, exists |-> FALSE, lines |-> <<>>]

\* Time Sync: the current drift, the drift history, the measurements
\* suspended in their request to the leader and the number completed
InitTimeSync ==
  [currentDrift |-> 0, driftHistory |-> <<>>, inFlight |-> 0, measured |-> 0]

\* for each subsystem with a periodic cycle: its running flag, whether its
\* timer variable holds a timer, and the number of intervals it has set and
\* not cleared
Subsystems == {"heartbeat", "election", "timeSync"}
InitPeriodic ==
  [s \in Subsystems |-> [isRunning |-> FALSE, timer |-> FALSE, live |-> 0]]

ExtInit ==
  /\ bus = InitBus
  /\ conflict = NoConflict
  /\ identity = InitIdentity
  /\ journal = InitJournal
  /\ timeSync = InitTimeSync
  /\ periodic = InitPeriodic

BaseInit ==
  /\ now = StartTime
  /\ leader = NullLeader
  /\ participants = EmptyMap
  /\ activeProposals = EmptyMap
  /\ calls = <<>>
  /\ created = 0
  /\ applyCount = [id \in ProposalIds |-> 0]
  /\ hbInFlight = 0
  /\ elections = <<>>
  /\ cluster = NoCluster
  /\ activeLocks = EmptyMap
  /\ renewalTimers = EmptyMap
  /\ lastOp = NoOp
  /\ run = NoRun

Init == BaseInit /\ ExtInit

coordVars == <<leader, participants>>
syncVars == <<activeProposals, calls, created, applyCount>>
lockVars == <<activeLocks, renewalTimers>>
\* everything but lastOp and the state of the subsystems below
baseVars == <<now, coordVars, syncVars, hbInFlight, elections, cluster,
              lockVars, run>>

(***************************************************************************)
(* The clock.  A due renewal timer fires before time moves on.             *)
(***************************************************************************)
Tick ==
  /\ now < EndTime
  /\ \A r \in DOMAIN renewalTimers : renewalTimers[r].next > now
  /\ now' = now + ClockStep
  /\ lastOp' = NoOp
  /\ UNCHANGED <<coordVars, syncVars,
                 hbInFlight, elections, cluster, lockVars, run, extVars>>

(***************************************************************************)
(* Heartbeat subsystem and Coordinator State operations                    *)
(***************************************************************************)
HeartbeatStatuses == {"healthy", "degraded", "unreachable"}

\* The status recorded for an instance, "unknown" when there is none.
statusOf(parts, participantId) ==
  IF MapHas(parts, participantId) THEN parts[participantId].status ELSE "unknown"

\* Faulty variant of checkHeartbeatTimeouts: the sweep marks nobody.
checkHeartbeatTimeoutsMarkingNobody(parts, t) == parts

\* Faulty variant of checkHeartbeatTimeouts: the sweep removes the
\* participants that timed out.
checkHeartbeatTimeoutsRemoving(parts, t) ==
  [p \in {q \in DOMAIN parts : t - parts[q].lastHeartbeat <= HEARTBEAT_TIMEOUT}
     |-> parts[p]]

\* checkHeartbeatTimeouts: updateParticipant(id, { status: 'unreachable' })
\* for every participant with now - lastHeartbeat > HEARTBEAT_TIMEOUT.
checkHeartbeatTimeouts(parts, t) ==
  [p \in DOMAIN parts |->
     IF t - parts[p].lastHeartbeat > HEARTBEAT_TIMEOUT
     THEN updateParticipant(parts, p, [status |-> "unreachable"], t)[p]
     ELSE parts[p]]

\* receiveHeartbeat({ instanceId, timestamp, uptime, status })
ReceiveHeartbeat(senderId, timestamp, uptime, status) ==
  /\ participants' = updateParticipant(participants, senderId,
                        [status |-> status, uptime |-> uptime,
                         lastHeartbeat |-> IF timestamp = 0 THEN now ELSE timestamp],
                        now)
  /\ lastOp' = [op |-> "receiveHeartbeat", senderId |-> senderId,
                was |-> statusOf(participants, senderId),
                applied |-> <<>>, published |-> <<>>]
  /\ UNCHANGED <<now, leader, syncVars,
                 hbInFlight, elections, cluster, lockVars, run, extVars>>

\* The timeout sweep; timedOut is the set of participants it marked.
CheckHeartbeatTimeouts ==
  /\ participants' = checkHeartbeatTimeouts(participants, now)
  /\ lastOp' = [op |-> "checkHeartbeatTimeouts",
                timedOut |-> {p \in DOMAIN participants :
                                now - participants[p].lastHeartbeat
                                  > HEARTBEAT_TIMEOUT},
                applied |-> <<>>, published |-> <<>>]
  /\ UNCHANGED <<now, leader, syncVars,
                 hbInFlight, elections, cluster, lockVars, run, extVars>>

\* sendHeartbeat up to the first await: the local instance is written into
\* the participants map, then the heartbeat goes out peer by peer.
sendHeartbeat ==
  /\ hbInFlight < MaxHbInFlight
  /\ participants' = updateParticipant(participants, getInstanceId,
                        [status |-> "healthy", uptime |-> processUptime(now)], now)
  /\ hbInFlight' = hbInFlight + 1

SendHeartbeat ==
  /\ sendHeartbeat
  /\ lastOp' = NoOp
  /\ UNCHANGED <<now, leader, syncVars, elections, cluster, lockVars, run, extVars>>

\* sendHeartbeat after the last peer answered or failed.
SendHeartbeatDone ==
  /\ hbInFlight > 0
  /\ hbInFlight' = hbInFlight - 1
  /\ leader' = IF isLeader(leader) THEN updateLeaderHeartbeat(leader, now) ELSE leader
  /\ lastOp' = NoOp
  /\ UNCHANGED <<now, participants, syncVars, elections, cluster, lockVars, run, extVars>>

RemoveParticipant(participantId) ==
  /\ participantId \in DOMAIN participants
  /\ participants' = removeParticipant(participants, participantId)
  /\ lastOp' = NoOp
  /\ UNCHANGED <<now, leader, syncVars,
                 hbInFlight, elections, cluster, lockVars, run, extVars>>

(***************************************************************************)
(* Sync Engine operations                                                  *)
(***************************************************************************)
GetQuorumInfo ==
  /\ lastOp' = [op |-> "getQuorumInfo", result |-> checkQuorum(participants),
                applied |-> <<>>, published |-> <<>>]
  /\ UNCHANGED <<now, coordVars, syncVars,
                 hbInFlight, elections, cluster, lockVars, run, extVars>>

\* The end of proposeSnapshot / proposeDiff, after the broadcast: the
\* proposer's own vote, whose result is dropped, and the return value (its
\* quorum field is the one computed when the call started).
finishPropose(op, proposalId, ap, published, applyOk) ==
  LET r == collectVote(ap, participants, proposalId, getInstanceId, "accept",
                       now, applyOk)
  IN  /\ activeProposals' = r.proposals
      /\ applyCount' = countApplied(applyCount, r.applied)
      /\ lastOp' = [op |-> op, phase |-> "return", proposalId |-> proposalId,
                    result |-> [success |-> TRUE, proposalId |-> proposalId],
                    selfVote |-> r.result, applied |-> r.applied,
                    published |-> published \o r.published]

\* proposeSnapshot / proposeDiff up to the first await of the broadcast (or
\* to the end when there is no remote instance).
propose(op, type, data, proposalId, proposalEvent, applyOk) ==
  LET quorum == checkQuorum(participants)
      withProposal == MapSet(activeProposals, proposalId,
                             newProposal(proposalId, type, data, now))
  IN  IF ~quorum.sufficient
      THEN /\ lastOp' = [op |-> op, phase |-> "skipped", proposalId |-> proposalId,
                         result |-> [success |-> FALSE,
                                     reason |-> "insufficient_quorum",
                                     quorum |-> quorum],
                         applied |-> <<>>,
                         published |-> <<"SKIPPED_QUORUM">>]
           /\ UNCHANGED <<now, coordVars, syncVars,
                          hbInFlight, elections, cluster, lockVars, run, extVars>>
      ELSE /\ created' = created + 1
           /\ IF Len(remoteInstances) = 0
              THEN /\ finishPropose(op, proposalId, withProposal,
                                    <<proposalEvent>>, applyOk)
                   /\ UNCHANGED calls
              ELSE /\ activeProposals' = withProposal
                   /\ calls' = Append(calls, [op |-> op, proposalId |-> proposalId,
                                              idx |-> 1])
                   /\ lastOp' = [op |-> op, phase |-> "broadcast",
                                 proposalId |-> proposalId, quorum |-> quorum,
                                 applied |-> <<>>,
                                 published |-> <<proposalEvent>>]
                   /\ UNCHANGED applyCount
           /\ UNCHANGED <<now, coordVars,
                          hbInFlight, elections, cluster, lockVars, run, extVars>>

ProposeSnapshot(snapshotData) ==
  \E applyOk \in IF Len(remoteInstances) = 0 THEN BOOLEAN ELSE {TRUE} :
    propose("proposeSnapshot", "snapshot", snapshotData,
            snapshotProposalId(snapshotData, now), "SNAPSHOT_PROPOSAL", applyOk)

ProposeDiff(diffData) ==
  \E applyOk \in IF Len(remoteInstances) = 0 THEN BOOLEAN ELSE {TRUE} :
    propose("proposeDiff", "diff", diffData,
            diffProposalId(diffData, now), "DIFF_PROPOSAL", applyOk)

\* await sendProposalToInstance(instance, proposal) of suspended call i
\* resolves or rejects (a rejection is only logged); after the last peer the
\* call casts its own vote and returns.
SendProposalDone(i) ==
  /\ i \in 1..Len(calls)
  /\ LET call == calls[i]
     IN  IF call.idx < Len(remoteInstances)
         THEN /\ calls' = [calls EXCEPT ![i] = [call EXCEPT !.idx = @ + 1]]
              /\ lastOp' = NoOp
              /\ UNCHANGED <<activeProposals, applyCount>>
         ELSE /\ calls' = RemoveAt(calls, i)
              /\ \E applyOk \in applyOutcomes(activeProposals, participants,
                                               call.proposalId, getInstanceId,
                                               "accept", now) :
                   finishPropose(call.op, call.proposalId, activeProposals,
                                 <<>>, applyOk)
  /\ UNCHANGED <<now, coordVars, created,
                 hbInFlight, elections, cluster, lockVars, run, extVars>>

\* A vote delivered from outside: collectVote(proposalId, voterId, vote).
\* lastOp keeps the arguments of a call that found its proposal.
CollectVote(proposalId, voterId, vote) ==
  \E applyOk \in applyOutcomes(activeProposals, participants, proposalId,
                                voterId, vote, now) :
    LET r == collectVote(activeProposals, participants, proposalId, voterId,
                         vote, now, applyOk)
    IN  /\ activeProposals' = r.proposals
        /\ applyCount' = countApplied(applyCount, r.applied)
        /\ lastOp' = IF r.result.success
                      THEN [op |-> "collectVote", proposalId |-> proposalId,
                            voterId |-> voterId, result |-> r.result,
                            redelivery |-> hasVoted(activeProposals, proposalId,
                                                    voterId, vote),
                            applied |-> r.applied, published |-> r.published]
                      ELSE [op |-> "collectVote", result |-> r.result,
                            applied |-> r.applied, published |-> r.published]
        /\ UNCHANGED <<now, coordVars, calls, created,
                       hbInFlight, elections, cluster, lockVars, run, extVars>>

\* applyIncomingSnapshot / applyIncomingDiff: the apply step, called
\* directly; a failure of the apply step reaches the caller.
applyIncoming(op, type, data, applyOk) ==
  /\ lastOp' = [op |-> op, threw |-> ~applyOk,
                applied |-> <<[type |-> type, data |-> data, ok |-> applyOk,
                               proposalId |-> <<>>, votes |-> EmptyMap,
                               participantsCount |->
                                 Cardinality(getParticipants(participants))]>>,
                published |-> applyPublished(type, applyOk)]
  /\ UNCHANGED <<now, coordVars, syncVars,
                 hbInFlight, elections, cluster, lockVars, run, extVars>>

ApplyIncomingSnapshot(snapshotData) ==
  \E applyOk \in BOOLEAN :
    applyIncoming("applyIncomingSnapshot", "snapshot", snapshotData, applyOk)

ApplyIncomingDiff(diffData) ==
  \E applyOk \in BOOLEAN :
    applyIncoming("applyIncomingDiff", "diff", diffData, applyOk)

(***************************************************************************)
(* Coordinator State operations used by the Lock Service                   *)
(***************************************************************************)
\* coordinatorState.setLeader(leaderId), electedAt defaulting to Date.now()
SetLeader(leaderId) ==
  /\ leader' = setLeader(leaderId, now)
  /\ lastOp' = NoOp
  /\ UNCHANGED <<now, participants, syncVars,
                 hbInFlight, elections, cluster, lockVars, run, extVars>>

ClearState ==
  /\ leader' = NullLeader
  /\ participants' = EmptyMap
  /\ lastOp' = NoOp
  /\ UNCHANGED <<now, syncVars, hbInFlight, elections, cluster, lockVars, run, extVars>>

(***************************************************************************)
(* Leader Election.  A suspended performElection call keeps the remote     *)
(* instances it still has to probe, the candidates collected so far and    *)
(* the leader that was recorded when it started.                           *)
(***************************************************************************)
\* What instanceDiscovery.listInstances() can return: the configuration
\* file is empty or names the remote instances.
DiscoveryLists == {<<>>, listInstances}

\* a.id.localeCompare(b.id) on the instance ids of the model
idRank == [i \in InstanceIds |-> IF i = "A" THEN 1 ELSE IF i = "B" THEN 2 ELSE 3]

\* { id: localInstanceId, uptime: process.uptime() * 1000, isLocal: true }
localCandidate(localId, t) ==
  [id |-> localId, uptime |-> processUptime(t), isLocal |-> TRUE]

\* { id: instance.id, uptime: 0, isLocal: false }
remoteCandidate(id) == [id |-> id, uptime |-> 0, isLocal |-> FALSE]

\* The comparator of candidates.sort puts a before b.
ranksBefore(a, b) ==
  \/ a.uptime > b.uptime
  \/ a.uptime = b.uptime /\ idRank[a.id] > idRank[b.id]

\* candidates[0] after the sort
topCandidate(cands) ==
  CHOOSE c \in cands : \A d \in cands \ {c} : ranksBefore(c, d)

\* The event published by the candidate-list branch.
electionEvents(previousLeader, newLeader) ==
  IF previousLeader = newLeader THEN <<>>
  ELSE IF previousLeader # NullLeader.id THEN <<"LEADER_CHANGED">>
       ELSE <<"LEADER_ELECTED">>

\* The end of performElection in the candidate-list branch: sort, read the
\* previous leader, set the new one and publish.
finishElection(cands, startLeader) ==
  LET newLeader == topCandidate(cands).id
      previousLeader == leader.id
  IN  /\ leader' = setLeader(newLeader, now)
      /\ lastOp' = [op |-> "performElection", branch |-> "candidates",
                    startLeader |-> startLeader,
                    previousLeader |-> previousLeader,
                    result |-> newLeader,
                    reachable |-> {c.id : c \in {d \in cands : ~d.isLocal}},
                    applied |-> <<>>,
                    published |-> electionEvents(previousLeader, newLeader)]

\* performElection up to its first await (or to its end when it has no
\* remote instance to probe); instances is what listInstances() returned.
performElection(instances) ==
  LET remote == SelectSeq(instances, LAMBDA i : i # getInstanceId)
  IN  IF Len(instances) = 0
      THEN /\ leader' = setLeader(getInstanceId, now)
           /\ lastOp' = [op |-> "performElection", branch |-> "no_peers",
                         startLeader |-> leader.id,
                         previousLeader |-> leader.id,
                         result |-> getInstanceId,
                         reachable |-> {},
                         applied |-> <<>>,
                         published |-> IF ~isLeader(leader)
                                       THEN <<"LEADER_ELECTED">> ELSE <<>>]
           /\ UNCHANGED elections
      ELSE IF Len(remote) = 0
           THEN /\ finishElection({localCandidate(getInstanceId, now)},
                                  leader.id)
                /\ UNCHANGED elections
           ELSE /\ Len(elections) < MaxElections
                /\ elections' = Append(elections,
                                  [remote |-> remote, idx |-> 1,
                                   candidates |->
                                     {localCandidate(getInstanceId, now)},
                                   startLeader |-> leader.id])
                /\ lastOp' = NoOp
                /\ UNCHANGED leader

PerformElection(instances) ==
  /\ performElection(instances)
  /\ UNCHANGED <<now, participants, syncVars, hbInFlight, cluster,
                 lockVars, run, extVars>>

\* await syncClient.checkInstanceHealth(instance) of suspended call i
\* returns health; after the last instance the call elects.
ElectionProbeDone(i, health) ==
  /\ i \in 1..Len(elections)
  /\ LET call == elections[i]
         cands == IF health
                  THEN call.candidates \cup {remoteCandidate(call.remote[call.idx])}
                  ELSE call.candidates
     IN  IF call.idx < Len(call.remote)
         THEN /\ elections' = [elections EXCEPT ![i] =
                                 [call EXCEPT !.idx = @ + 1, !.candidates = cands]]
              /\ lastOp' = NoOp
              /\ UNCHANGED leader
         ELSE /\ elections' = RemoveAt(elections, i)
              /\ finishElection(cands, call.startLeader)
  /\ UNCHANGED <<now, participants, syncVars, hbInFlight, cluster,
                 lockVars, run, extVars>>

(***************************************************************************)
(* Lock Service.  A renewal timer is the interval started for a resource:  *)
(* the ttl it renews with and the time of its next firing.                 *)
(***************************************************************************)
Resources == {"r1", "r2"}
TtlInputs == {100, LOCK_TTL}

\* Faulty variant of lockIsActive: a lock never expires.
lockNeverExpires(lock, t) == TRUE

\* existingLock.expiresAt > now
lockIsActive(lock, t) == lock.expiresAt > t

stopLockRenewal(timers, resource) ==
  IF MapHas(timers, resource) THEN MapDelete(timers, resource) ELSE timers

startLockRenewal(timers, resource, ttl, t) ==
  MapSet(stopLockRenewal(timers, resource), resource,
         [ttl |-> ttl, next |-> t + LOCK_RENEWAL_INTERVAL])

\* Faulty variant of releaseLock: the renewal timer is left running.
releaseLockKeepingTimer(locks, timers, resource, checkHolder) ==
  IF ~MapHas(locks, resource)
  THEN [locks |-> locks, timers |-> timers, result |-> FALSE]
  ELSE IF checkHolder /\ locks[resource].holder # getInstanceId
       THEN [locks |-> locks, timers |-> timers, result |-> FALSE]
       ELSE [locks |-> MapDelete(locks, resource), timers |-> timers,
             result |-> TRUE]

releaseLock(locks, timers, resource, checkHolder) ==
  IF ~MapHas(locks, resource)
  THEN [locks |-> locks, timers |-> timers, result |-> FALSE]
  ELSE IF checkHolder /\ locks[resource].holder # getInstanceId
       THEN [locks |-> locks, timers |-> timers, result |-> FALSE]
       ELSE [locks |-> MapDelete(locks, resource),
             timers |-> stopLockRenewal(timers, resource),
             result |-> TRUE]

\* acquireLock(resource, ttl): the body has no await.  reason is the label of
\* the failure metric, or the trace event of the successful branch.
acquireLock(locks, timers, ldr, resource, ttl, t) ==
  IF ~isLeader(ldr)
  THEN [locks |-> locks, timers |-> timers, result |-> FALSE,
        reason |-> "not_leader"]
  ELSE IF MapHas(locks, resource) /\ lockIsActive(locks[resource], t)
       THEN IF locks[resource].holder # getInstanceId
            THEN [locks |-> locks, timers |-> timers, result |-> FALSE,
                  reason |-> "already_locked"]
            ELSE [locks |-> MapSet(locks, resource,
                                   [locks[resource] EXCEPT !.expiresAt = t + ttl]),
                  timers |-> timers, result |-> TRUE, reason |-> "LOCK_RENEWED"]
       ELSE LET rel == releaseLock(locks, timers, resource, FALSE)
            IN  [locks |-> MapSet(rel.locks, resource,
                                  [resource |-> resource, holder |-> getInstanceId,
                                   acquiredAt |-> t, expiresAt |-> t + ttl]),
                 timers |-> startLockRenewal(rel.timers, resource, ttl, t),
                 result |-> TRUE, reason |-> "SNAPSHOT_CREATED"]

\* Faulty variant of renewLock: the callback does not look at leadership.
renewLockIgnoringLeadership(locks, timers, ldr, resource, t) ==
  IF ~MapHas(locks, resource)
  THEN [locks |-> locks, timers |-> stopLockRenewal(timers, resource)]
  ELSE [locks |-> MapSet(locks, resource,
                         [locks[resource] EXCEPT
                            !.expiresAt = t + timers[resource].ttl]),
        timers |-> timers]

\* Faulty variant of renewLock: a tick of a leader leaves expiresAt as it was.
renewLockWithoutExtension(locks, timers, ldr, resource, t) ==
  IF ~MapHas(locks, resource)
  THEN [locks |-> locks, timers |-> stopLockRenewal(timers, resource)]
  ELSE IF ~isLeader(ldr)
       THEN [locks |-> MapDelete(locks, resource),
             timers |-> stopLockRenewal(timers, resource)]
       ELSE [locks |-> locks, timers |-> timers]

\* The setInterval callback of startLockRenewal for a resource.
renewLock(locks, timers, ldr, resource, t) ==
  IF ~MapHas(locks, resource)
  THEN [locks |-> locks, timers |-> stopLockRenewal(timers, resource)]
  ELSE IF ~isLeader(ldr)
       THEN LET rel == releaseLock(locks, timers, resource, FALSE)
            IN  [locks |-> rel.locks, timers |-> rel.timers]
       ELSE [locks |-> MapSet(locks, resource,
                              [locks[resource] EXCEPT
                                 !.expiresAt = t + timers[resource].ttl]),
             timers |-> timers]

\* Faulty variant of cleanupExpiredLocks: the renewal timers of the removed
\* locks are left running.
cleanupExpiredLocksKeepingTimers(locks, timers, t) ==
  LET expired == {r \in DOMAIN locks : locks[r].expiresAt <= t}
  IN  [locks |-> [r \in (DOMAIN locks) \ expired |-> locks[r]],
       timers |-> timers]

\* cleanupExpiredLocks: releaseLock(resource, false) for every lock with
\* expiresAt <= now.
cleanupExpiredLocks(locks, timers, t) ==
  LET expired == {r \in DOMAIN locks : locks[r].expiresAt <= t}
  IN  [locks |-> [r \in (DOMAIN locks) \ expired |-> locks[r]],
       timers |-> [r \in (DOMAIN timers) \ expired |-> timers[r]]]

\* What the lock table holds for a resource when an operation starts.
lockStateOf(locks, resource, t) ==
  IF ~MapHas(locks, resource) THEN "none"
  ELSE IF locks[resource].expiresAt <= t THEN "expired" ELSE "active"

AcquireLock(resource, ttl) ==
  LET r == acquireLock(activeLocks, renewalTimers, leader, resource, ttl, now)
  IN  /\ activeLocks' = r.locks
      /\ renewalTimers' = r.timers
      /\ lastOp' = [op |-> "acquireLock", resource |-> resource, ttl |-> ttl,
                    before |-> lockStateOf(activeLocks, resource, now),
                    result |-> r.result, reason |-> r.reason,
                    applied |-> <<>>, published |-> <<>>]
      /\ UNCHANGED <<now, coordVars, syncVars,
                     hbInFlight, elections, cluster, run, extVars>>

ReleaseLock(resource, checkHolder) ==
  LET r == releaseLock(activeLocks, renewalTimers, resource, checkHolder)
  IN  /\ activeLocks' = r.locks
      /\ renewalTimers' = r.timers
      /\ lastOp' = [op |-> "releaseLock", resource |-> resource,
                    checkHolder |-> checkHolder,
                    before |-> lockStateOf(activeLocks, resource, now),
                    result |-> r.result, applied |-> <<>>, published |-> <<>>]
      /\ UNCHANGED <<now, coordVars, syncVars,
                     hbInFlight, elections, cluster, run, extVars>>

\* The renewal timer of a resource fires; the interval stays armed unless
\* the callback cleared it.
RenewalTick(resource) ==
  /\ MapHas(renewalTimers, resource)
  /\ renewalTimers[resource].next <= now
  /\ LET r == renewLock(activeLocks, renewalTimers, leader, resource, now)
     IN  /\ activeLocks' = r.locks
         /\ renewalTimers' =
              IF MapHas(r.timers, resource)
              THEN [r.timers EXCEPT
                      ![resource].next = @ + LOCK_RENEWAL_INTERVAL]
              ELSE r.timers
  /\ lastOp' = [op |-> "renewalTick", resource |-> resource,
                before |-> lockStateOf(activeLocks, resource, now),
                applied |-> <<>>, published |-> <<>>]
  /\ UNCHANGED <<now, coordVars, syncVars, hbInFlight, elections, cluster, run, extVars>>

CleanupExpiredLocks ==
  LET r == cleanupExpiredLocks(activeLocks, renewalTimers, now)
  IN  /\ activeLocks' = r.locks
      /\ renewalTimers' = r.timers
      /\ lastOp' = [op |-> "cleanupExpiredLocks",
                    expired |-> {r2 \in DOMAIN activeLocks :
                                   activeLocks[r2].expiresAt <= now},
                    applied |-> <<>>, published |-> <<>>]
      /\ UNCHANGED <<now, coordVars, syncVars,
                     hbInFlight, elections, cluster, run, extVars>>

ClearAllLocks ==
  /\ activeLocks' = EmptyMap
  /\ renewalTimers' = EmptyMap
  /\ lastOp' = NoOp
  /\ UNCHANGED <<now, coordVars, syncVars, hbInFlight, elections, cluster, run, extVars>>

\* The bound on propose calls: at most `limit` of them create a proposal; a
\* call that is skipped for insufficient quorum creates none.
withinBound(limit) == created < limit \/ ~checkQuorum(participants).sufficient

(***************************************************************************)
(* Spec: the Sync Engine with the votes and heartbeats that reach it.      *)
(***************************************************************************)
Next ==
  \/ Tick
  \/ \E p \in Peers : ReceiveHeartbeat(p, StartTime, 0, "healthy")
  \/ \E p \in InstanceIds : RemoveParticipant(p)
  \/ \E s \in SnapshotInputs : withinBound(MaxProposals) /\ ProposeSnapshot(s)
  \/ \E d \in DiffInputs : withinBound(MaxProposals) /\ ProposeDiff(d)
  \/ \E i \in 1..MaxProposals : SendProposalDone(i)
  \/ \E id \in ProposalIds, v \in RemoteVoters, vote \in VoteValues :
        CollectVote(id, v, vote)
  \/ \E s \in SnapshotInputs : ApplyIncomingSnapshot(s)
  \/ \E d \in DiffInputs : ApplyIncomingDiff(d)

Spec == Init /\ [][Next]_vars

(***************************************************************************)
(* RepeatSpec: the Sync Engine when propose calls follow one another, for  *)
(* the same data or not, within one clock reading or across readings.      *)
(***************************************************************************)
RepeatNext ==
  \/ Tick
  \/ \E p \in Peers : ReceiveHeartbeat(p, StartTime, 0, "healthy")
  \/ \E s \in SnapshotInputs : withinBound(MaxRepeats) /\ ProposeSnapshot(s)
  \/ \E d \in DiffInputs : withinBound(MaxRepeats) /\ ProposeDiff(d)
  \/ \E i \in 1..MaxRepeats : SendProposalDone(i)
  \/ \E id \in ProposalIds, v \in RemoteVoters, vote \in VoteValues :
        CollectVote(id, v, vote)

RepeatSpec == Init /\ [][RepeatNext]_vars

(***************************************************************************)
(* QuorumSpec: the heartbeat traffic that fills Coordinator State, the     *)
(* quorum queries and the propose calls that use the quorum.               *)
(***************************************************************************)
QuorumNext ==
  \/ Tick
  \/ \E p \in Peers, st \in HeartbeatStatuses :
        ReceiveHeartbeat(p, StartTime, 0, st)
  \/ SendHeartbeat
  \/ SendHeartbeatDone
  \/ \E p \in InstanceIds : RemoveParticipant(p)
  \/ GetQuorumInfo
  \/ \E s \in SnapshotInputs : withinBound(MaxProposals) /\ ProposeSnapshot(s)
  \/ \E d \in DiffInputs : withinBound(MaxProposals) /\ ProposeDiff(d)
  \/ \E i \in 1..MaxProposals : SendProposalDone(i)

QuorumSpec == Init /\ [][QuorumNext]_vars

(***************************************************************************)
(* LockSpec: the Lock Service under leadership changes and passing time.   *)
(***************************************************************************)
LockNext ==
  \/ Tick
  \/ \E id \in {getInstanceId, "B"} : SetLeader(id)
  \/ ClearState
  \/ \E r \in Resources, ttl \in TtlInputs : AcquireLock(r, ttl)
  \/ \E r \in Resources, checkHolder \in BOOLEAN : ReleaseLock(r, checkHolder)
  \/ \E r \in Resources : RenewalTick(r)
  \/ CleanupExpiredLocks
  \/ ClearAllLocks

LockSpec == Init /\ [][LockNext]_vars

(***************************************************************************)
(* LeaseSpec: locks taken with the default TTL and renewed on the default  *)
(* cadence, followed for longer than one TTL.                              *)
(***************************************************************************)
\* The clock of LeaseSpec: as Tick, up to LeaseEndTime.
LeaseTick ==
  /\ now < LeaseEndTime
  /\ \A r \in DOMAIN renewalTimers : renewalTimers[r].next > now
  /\ now' = now + ClockStep
  /\ lastOp' = NoOp
  /\ UNCHANGED <<coordVars, syncVars,
                 hbInFlight, elections, cluster, lockVars, run, extVars>>

LeaseNext ==
  \/ LeaseTick
  \/ \E id \in {getInstanceId, "B"} : SetLeader(id)
  \/ \E r \in Resources : AcquireLock(r, LOCK_TTL)
  \/ \E r \in Resources : ReleaseLock(r, TRUE)
  \/ \E r \in Resources : RenewalTick(r)
  \/ CleanupExpiredLocks

LeaseSpec == Init /\ [][LeaseNext]_vars

(***************************************************************************)
(* HeartbeatSpec: heartbeats sent and received and timeout sweeps over     *)
(* more than one timeout.  A received heartbeat carries the status the     *)
(* sender writes, "healthy", and the sender's clock reading, which is the  *)
(* receiver's (timestamp 0: none given) or an older one.                   *)
(***************************************************************************)
HeartbeatTick ==
  /\ now < HeartbeatEndTime
  /\ \A r \in DOMAIN renewalTimers : renewalTimers[r].next > now
  /\ now' = now + ClockStep
  /\ lastOp' = NoOp
  /\ UNCHANGED <<coordVars, syncVars, hbInFlight, elections, cluster,
                 lockVars, run, extVars>>

HeartbeatNext ==
  \/ HeartbeatTick
  \/ \E p \in Peers, ts \in {0, StartTime} : ReceiveHeartbeat(p, ts, 0, "healthy")
  \/ CheckHeartbeatTimeouts
  \/ SendHeartbeat
  \/ SendHeartbeatDone

HeartbeatSpec == Init /\ [][HeartbeatNext]_vars

(***************************************************************************)
(* ElectionSpec: election cycles of the local instance, with the leader    *)
(* also set through the Coordinator State interface.                       *)
(***************************************************************************)
ElectionNext ==
  \/ Tick
  \/ \E id \in InstanceIds : SetLeader(id)
  \/ \E instances \in DiscoveryLists : PerformElection(instances)
  \/ \E i \in 1..MaxElections, health \in BOOLEAN : ElectionProbeDone(i, health)

ElectionSpec == Init /\ [][ElectionNext]_vars

(***************************************************************************)
(* MembershipSpec: everything that writes Coordinator State or reads the   *)
(* participants map: heartbeats, sweeps, elections, proposals, votes, lock *)
(* operations, and the two operations that remove participants.  The peer  *)
(* that sends heartbeats has a clock far behind the local one, so its      *)
(* entry times out once the local clock has moved on; the local instance   *)
(* finds no remote instance to probe in its elections; asynchronous        *)
(* operations do not overlap and one proposal is active at a time          *)
(* (RepeatSpec covers the overlaps).                                       *)
(***************************************************************************)
\* no asynchronous operation is suspended
settled == calls = <<>> /\ hbInFlight = 0

MembershipNext ==
  \/ Tick
  \/ ReceiveHeartbeat("B", 1, 0, "healthy")
  \/ CheckHeartbeatTimeouts
  \/ settled /\ SendHeartbeat
  \/ SendHeartbeatDone
  \/ settled /\ PerformElection(<<>>)
  \/ \E s \in SnapshotInputs :
        /\ settled /\ activeProposals = EmptyMap
        /\ withinBound(MaxProposals) /\ ProposeSnapshot(s)
  \/ \E i \in 1..MaxProposals : SendProposalDone(i)
  \/ \E id \in ProposalIds, v \in RemoteVoters : CollectVote(id, v, "accept")
  \/ AcquireLock("r1", LOCK_TTL)
  \/ ReleaseLock("r1", TRUE)
  \/ RenewalTick("r1")
  \/ \E p \in InstanceIds : RemoveParticipant(p)
  \/ ClearState

MembershipSpec == Init /\ [][MembershipNext]_vars

(***************************************************************************)
(* ActiveSetSpec: proposals and the votes on them, accept or reject, while *)
(* time passes, heartbeats arrive, sweeps run, participants are removed    *)
(* and the local instance is elected.                                      *)
(***************************************************************************)
ActiveSetNext ==
  \/ Tick
  \/ ReceiveHeartbeat("B", 1, 0, "healthy")
  \/ CheckHeartbeatTimeouts
  \/ PerformElection(<<>>)
  \/ \E s \in SnapshotInputs : withinBound(MaxProposals) /\ ProposeSnapshot(s)
  \/ \E d \in DiffInputs : withinBound(MaxProposals) /\ ProposeDiff(d)
  \/ \E i \in 1..MaxProposals : SendProposalDone(i)
  \/ \E id \in ProposalIds, v \in RemoteVoters, vote \in VoteValues :
        CollectVote(id, v, vote)
  \/ \E p \in InstanceIds : RemoveParticipant(p)

ActiveSetSpec == Init /\ [][ActiveSetNext]_vars

(***************************************************************************)
(* ClusterSpec: every instance of the cluster runs the election on its own *)
(* Coordinator State.  All processes started together, share one instance  *)
(* list and answer every health probe.  cluster[i] is process i: the       *)
(* leader it records and its election cycle (idx = 0: none running).       *)
(***************************************************************************)
clusterInstances == <<getInstanceId>> \o listInstances

\* The instances process i probes: the loop skips its own id.
probedBy(i) == SelectSeq(clusterInstances, LAMBDA j : j # i)

ClusterInit ==
  /\ ExtInit
  /\ now = StartTime
  /\ leader = NullLeader
  /\ participants = EmptyMap
  /\ activeProposals = EmptyMap
  /\ calls = <<>>
  /\ created = 0
  /\ applyCount = [id \in ProposalIds |-> 0]
  /\ hbInFlight = 0
  /\ elections = <<>>
  /\ cluster = [i \in InstanceIds |->
                  [leader |-> NullLeader.id, idx |-> 0, candidates |-> {}]]
  /\ activeLocks = EmptyMap
  /\ renewalTimers = EmptyMap
  /\ lastOp = NoOp
  /\ run = NoRun

\* Process i starts an election cycle.
ClusterStartElection(i) ==
  /\ cluster[i].idx = 0
  /\ cluster' = [cluster EXCEPT ![i].idx = 1,
                                ![i].candidates = {localCandidate(i, now)}]
  /\ lastOp' = NoOp
  /\ UNCHANGED <<now, coordVars, syncVars, hbInFlight, elections, lockVars, run, extVars>>

\* A health probe of process i succeeds; after the last one it elects.
ClusterProbeDone(i) ==
  /\ cluster[i].idx > 0
  /\ LET cands == cluster[i].candidates
                    \cup {remoteCandidate(probedBy(i)[cluster[i].idx])}
     IN  cluster' = IF cluster[i].idx < Len(probedBy(i))
                    THEN [cluster EXCEPT ![i].idx = @ + 1,
                                         ![i].candidates = cands]
                    ELSE [cluster EXCEPT ![i] =
                            [leader |-> topCandidate(cands).id, idx |-> 0,
                             candidates |-> {}]]
  /\ lastOp' = NoOp
  /\ UNCHANGED <<now, coordVars, syncVars, hbInFlight, elections, lockVars, run, extVars>>

ClusterNext ==
  \/ Tick
  \/ \E i \in InstanceIds : ClusterStartElection(i)
  \/ \E i \in InstanceIds : ClusterProbeDone(i)

\* The election timer of every process keeps firing and every probe is
\* answered.
ClusterSpec ==
  /\ ClusterInit
  /\ [][ClusterNext]_vars
  /\ \A i \in InstanceIds : WF_vars(ClusterStartElection(i))
  /\ \A i \in InstanceIds : WF_vars(ClusterProbeDone(i))

(***************************************************************************)
(* OrderSpec: one bag of votes for one proposal, delivered to two copies   *)
(* of the Sync Engine state in two independent orders.  run.votes is the   *)
(* bag, run.left[k] the votes copy k has not received yet,                 *)
(* run.proposals[k] its active set and run.applied[k] whether it has       *)
(* invoked the apply step.                                                 *)
(***************************************************************************)
VoteLists == UNION {[1..n -> Peers \X VoteValues] : n \in 1..MaxVotes}

\* the participants maps after heartbeats of some of the peers
HeardFrom(ps) ==
  [p \in ps |-> updateParticipant(EmptyMap, p,
                   [status |-> "healthy", uptime |-> 0,
                    lastHeartbeat |-> StartTime], StartTime)[p]]

orderProposal ==
  LET snapshotData == CHOOSE x \in SnapshotInputs : TRUE
      proposalId == snapshotProposalId(snapshotData, StartTime)
  IN  newProposal(proposalId, "snapshot", snapshotData, StartTime)

OrderInit ==
  /\ ExtInit
  /\ now = StartTime
  /\ leader = NullLeader
  /\ participants \in {HeardFrom(ps) : ps \in SUBSET Peers}
  /\ activeProposals = EmptyMap
  /\ calls = <<>>
  /\ created = 0
  /\ applyCount = [id \in ProposalIds |-> 0]
  /\ hbInFlight = 0
  /\ elections = <<>>
  /\ cluster = NoCluster
  /\ activeLocks = EmptyMap
  /\ renewalTimers = EmptyMap
  /\ lastOp = NoOp
  /\ run \in {[phase |-> "order", votes |-> vl,
               left |-> <<DOMAIN vl, DOMAIN vl>>,
               proposals |-> <<MapSet(EmptyMap, orderProposal.id, orderProposal),
                               MapSet(EmptyMap, orderProposal.id, orderProposal)>>,
               applied |-> <<FALSE, FALSE>>] : vl \in VoteLists}

\* Copy k receives vote i of the bag: collectVote(proposalId, voterId, vote).
DeliverVote(k, i) ==
  /\ run.phase = "order"
  /\ i \in run.left[k]
  /\ \E applyOk \in BOOLEAN :
       LET r == collectVote(run.proposals[k], participants, orderProposal.id,
                            run.votes[i][1], run.votes[i][2], now, applyOk)
       IN  run' = [run EXCEPT !.left[k] = @ \ {i},
                              !.proposals[k] = r.proposals,
                              !.applied[k] = @ \/ r.applied # <<>>]
  /\ lastOp' = NoOp
  /\ UNCHANGED <<now, coordVars, syncVars,
                 hbInFlight, elections, cluster, lockVars,
                 extVars>>

OrderNext == \E k \in 1..2, i \in 1..MaxVotes : DeliverVote(k, i)

OrderSpec == OrderInit /\ [][OrderNext]_vars

(***************************************************************************)
(* Event Bus (src/distributed/event-bus.mjs).  A handler invocation is in  *)
(* progress from the step that calls it to the step in which its promise   *)
(* settles; a handler may fulfil or reject (a synchronous throw is caught  *)
(* by the same try block).  Events are published from outside or by a      *)
(* handler in progress: both run publish().                                *)
(***************************************************************************)
MaxEvents == 3

EventTypes == {"LEADER_ELECTED", "SNAPSHOT_CREATED"}

\* the subscriptions in force: two handlers of one type, one of the other,
\* one of every event
subscribers ==
  [t \in EventTypes \cup {"DIFF_CREATED", "*"} |->
     CASE t = "LEADER_ELECTED" -> <<"onLeaderElected", "onLeaderElectedToo">>
       [] t = "SNAPSHOT_CREATED" -> <<"onSnapshotCreated">>
       [] t = "DIFF_CREATED" -> <<"onDiffCreated">>
       [] OTHER -> <<"onAnyEvent">>]

\* [...handlers, ...allHandlers]
handlersFor(event) == subscribers[event.type] \o subscribers["*"]

\* await handler(event): the handler at position idx of activation k starts
callHandler(b, k, event, hs, idx) ==
  [b EXCEPT !.drains[k] = [event |-> event, handlers |-> hs, idx |-> idx,
                           entry |-> Len(b.log) + 1],
            !.log = Append(@, [event |-> event.id, handler |-> hs[idx],
                               outcome |-> "running"])]

\* notifySubscribers up to its first await
notifySubscribers(b, k, event) ==
  callHandler(b, k, event, handlersFor(event), 1)

\* processQueue past its guard: isProcessing = true, shift, notify
startDrain(b) ==
  LET event == Head(b.eventQueue)
      k == Len(b.drains) + 1
  IN  notifySubscribers([b EXCEPT !.isProcessing = TRUE,
                                  !.eventQueue = Tail(@),
                                  !.drains = Append(@, [event |-> event])],
                        k, event)

\* processQueue without the isProcessing guard
processQueueReentrant(b) ==
  IF b.eventQueue = <<>> THEN b ELSE startDrain(b)

processQueue(b) ==
  IF b.isProcessing \/ b.eventQueue = <<>> THEN b ELSE startDrain(b)

\* publish: the event is queued, then processQueue() is called and not
\* awaited; queued records whether a drain was in progress
publish(b, type) ==
  LET event == [id |-> Len(b.published) + 1, type |-> type,
                queued |-> b.isProcessing]
  IN  processQueue([b EXCEPT !.eventQueue = Append(@, event),
                             !.published = Append(@, event)])

removeDrain(b, k) ==
  [b EXCEPT !.drains = SubSeq(@, 1, k - 1) \o SubSeq(@, k + 1, Len(@))]

\* activation k after its handler's promise settled: the next handler of the
\* event, or the next event of the queue, or the end of processQueue
continueDrain(b, k) ==
  LET d == b.drains[k]
  IN  IF d.idx < Len(d.handlers)
        THEN callHandler(b, k, d.event, d.handlers, d.idx + 1)
      ELSE IF b.eventQueue # <<>>
        THEN notifySubscribers([b EXCEPT !.eventQueue = Tail(@)], k,
                               Head(b.eventQueue))
      ELSE removeDrain([b EXCEPT !.isProcessing = FALSE], k)

settle(b, k, outcome) == [b EXCEPT !.log[b.drains[k].entry].outcome = outcome]

\* a rejection that is not caught ends processQueue where it stands
handlerSettledUncaught(b, k, outcome) ==
  IF outcome = "throw"
    THEN removeDrain(settle(b, k, outcome), k)
    ELSE continueDrain(settle(b, k, outcome), k)

\* try { await handler(event) } catch { logError }: both outcomes go on
handlerSettled(b, k, outcome) == continueDrain(settle(b, k, outcome), k)

HandlerOutcomes == {"ok", "throw"}

Publish(type) ==
  /\ Len(bus.published) < MaxEvents
  /\ bus' = publish(bus, type)
  /\ lastOp' = [op |-> "publish", type |-> type]
  /\ UNCHANGED <<baseVars, conflict, identity, journal, timeSync, periodic>>

HandlerSettled(k, outcome) ==
  /\ k \in DOMAIN bus.drains
  /\ bus' = handlerSettled(bus, k, outcome)
  /\ lastOp' = [op |-> "handlerSettled", outcome |-> outcome]
  /\ UNCHANGED <<baseVars, conflict, identity, journal, timeSync, periodic>>

BusNext ==
  \/ \E type \in EventTypes : Publish(type)
  \/ \E k \in 1..MaxEvents, outcome \in HandlerOutcomes :
       HandlerSettled(k, outcome)

BusSpec == Init /\ [][BusNext]_vars

(***************************************************************************)
(* Conflict Resolution (src/distributed/conflict-resolution.mjs).  The     *)
(* candidates are snapshots (payload.hash) or diffs (payload.to), each     *)
(* with a source instance and a timestamp.                                 *)
(***************************************************************************)
MaxCandidates == 2

RESOLUTION_STRATEGIES == {"last-write-wins", "leader-wins", "reject-inconsistent"}

Timestamps == {1, 2}
Hashes == {"h1", "h2"}
TargetVersions == {"1.1.0", "1.2.0"}

Snapshots ==
  [sourceInstance : InstanceIds, timestamp : Timestamps,
   payload : [hash : Hashes]]
Diffs ==
  [sourceInstance : InstanceIds, timestamp : Timestamps,
   payload : [to : TargetVersions]]

ListsOf(S) == UNION {[1..n -> S] : n \in 0..MaxCandidates}

\* list.reduce((latest, current) =>
\*   current.timestamp > latest.timestamp ? current : latest)
RECURSIVE reduceLatest(_, _)
reduceLatest(latest, rest) ==
  IF rest = <<>> THEN latest
  ELSE reduceLatest(IF Head(rest).timestamp > latest.timestamp
                      THEN Head(rest) ELSE latest,
                    Tail(rest))

\* a reduce that keeps its first element
lastWriteWinsFirst(list) ==
  [resolved |-> TRUE, strategy |-> "last-write-wins", winner |-> Head(list),
   reason |-> "last-write-wins (latest timestamp)"]

lastWriteWins(list) ==
  [resolved |-> TRUE, strategy |-> "last-write-wins",
   winner |-> reduceLatest(Head(list), Tail(list)),
   reason |-> "last-write-wins (latest timestamp)"]

\* list.find(c => c.sourceInstance === leader.id): the positions that match
fromLeader(list, ldr) ==
  IF ldr = NullLeader THEN {}
  ELSE {i \in DOMAIN list : list[i].sourceInstance = ldr.id}

\* leader-wins that never looks for the leader's candidate
leaderWinsIgnoringLeader(list, ldr) ==
  [resolved |-> TRUE, strategy |-> "leader-wins",
   winner |-> reduceLatest(Head(list), Tail(list)),
   reason |-> "leader-wins (fallback to last-write-wins)"]

leaderWins(list, ldr) ==
  LET found == fromLeader(list, ldr)
  IN  IF found # {}
        THEN [resolved |-> TRUE, strategy |-> "leader-wins",
              winner |-> list[CHOOSE i \in found : \A j \in found : i <= j],
              reason |-> "leader-wins"]
        ELSE [resolved |-> TRUE, strategy |-> "leader-wins",
              winner |-> reduceLatest(Head(list), Tail(list)),
              reason |-> "leader-wins (fallback to last-write-wins)"]

\* reject-inconsistent that takes the first candidate whatever the others are
rejectInconsistentAcceptingAll(list, keys, mismatch) ==
  [resolved |-> TRUE, strategy |-> "reject-inconsistent", winner |-> list[1],
   reason |-> "reject-inconsistent (match)"]

\* keys are the hashes (target versions) of the candidates in list order
rejectInconsistent(list, keys, mismatch) ==
  LET unique == {keys[i] : i \in DOMAIN keys}
  IN  IF Cardinality(unique) > 1
        THEN [resolved |-> FALSE, reason |-> mismatch, values |-> unique]
        ELSE [resolved |-> TRUE, strategy |-> "reject-inconsistent",
              winner |-> list[1], reason |-> "reject-inconsistent (match)"]

resolveWith(list, strategy, ldr, keys, mismatch) ==
  IF list = <<>> THEN [resolved |-> FALSE, reason |-> "no_conflicts"]
  ELSE CASE strategy = "last-write-wins" -> lastWriteWins(list)
         [] strategy = "leader-wins" -> leaderWins(list, ldr)
         [] strategy = "reject-inconsistent" ->
              rejectInconsistent(list, keys, mismatch)

\* s.payload.hash, undefined when the payload has no such property
payloadHash(s) ==
  IF "hash" \in DOMAIN s.payload THEN s.payload.hash ELSE "undefined"

resolveParallelSnapshots(snapshots, strategy, ldr) ==
  resolveWith(snapshots, strategy, ldr,
              [i \in DOMAIN snapshots |-> payloadHash(snapshots[i])],
              "hash_mismatch")

resolveConcurrentDiffs(diffs, strategy, ldr) ==
  resolveWith(diffs, strategy, ldr,
              [i \in DOMAIN diffs |-> diffs[i].payload.to],
              "inconsistent_target_versions")

\* the candidates are drawn once; conflict holds them and, after a call,
\* the strategy, the leader at the call and the result
ConflictInit ==
  /\ BaseInit
  /\ bus = InitBus
  /\ conflict \in
       {[op |-> "input", kind |-> "snapshots", candidates |-> l] :
          l \in ListsOf(Snapshots)}
       \cup {[op |-> "input", kind |-> "diffs", candidates |-> l] :
               l \in ListsOf(Diffs)}
  /\ identity = InitIdentity
  /\ journal = InitJournal
  /\ timeSync = InitTimeSync
  /\ periodic = InitPeriodic

ResolveParallelSnapshots(strategy) ==
  /\ conflict.op # "none"
  /\ conflict.kind = "snapshots"
  /\ LET snapshots == conflict.candidates
     IN  conflict' =
           [op |-> "resolveParallelSnapshots", kind |-> conflict.kind,
            candidates |-> snapshots,
            keys |-> [i \in DOMAIN snapshots |-> snapshots[i].payload.hash],
            strategy |-> strategy, leader |-> leader,
            result |-> resolveParallelSnapshots(snapshots, strategy, leader)]
  /\ lastOp' = NoOp
  /\ UNCHANGED <<baseVars, bus, identity, journal, timeSync, periodic>>

ResolveConcurrentDiffs(strategy) ==
  /\ conflict.op # "none"
  /\ conflict.kind = "diffs"
  /\ LET diffs == conflict.candidates
     IN  conflict' =
           [op |-> "resolveConcurrentDiffs", kind |-> conflict.kind,
            candidates |-> diffs,
            keys |-> [i \in DOMAIN diffs |-> diffs[i].payload.to],
            strategy |-> strategy, leader |-> leader,
            result |-> resolveConcurrentDiffs(diffs, strategy, leader)]
  /\ lastOp' = NoOp
  /\ UNCHANGED <<baseVars, bus, identity, journal, timeSync, periodic>>

ConflictNext ==
  \/ \E strategy \in RESOLUTION_STRATEGIES : ResolveParallelSnapshots(strategy)
  \/ \E strategy \in RESOLUTION_STRATEGIES : ResolveConcurrentDiffs(strategy)
  \/ \E id \in InstanceIds : SetLeader(id)
  \/ ClearState

ConflictSpec == ConflictInit /\ [][ConflictNext]_vars

(***************************************************************************)
(* ResolveSpec: resolveConflict over conflict records.  A record names the *)
(* instances in conflict and, for snapshots, the version and the hash each *)
(* carries, for diffs the source and target versions.                      *)
(***************************************************************************)
ConflictTypes == {"parallel_snapshots", "concurrent_diffs", "unknown"}
InstanceLists == {<<"A", "B">>, <<"B", "A">>}
SnapshotConflicts ==
  [instances : InstanceLists, version : {"1.0"}, hash : Hashes]
DiffConflicts ==
  [instances : InstanceLists, from : {"1.0"}, to : TargetVersions]

\* conflicts.map(c => ({ sourceInstance: c.instances[0],
\*   timestamp: Date.now(), payload: { version: c.version } }))
snapshotsOf(conflicts, t) ==
  [i \in DOMAIN conflicts |->
     [sourceInstance |-> conflicts[i].instances[1], timestamp |-> t,
      payload |-> [version |-> conflicts[i].version]]]

\* conflicts.map(c => ({ sourceInstance: c.instances[0],
\*   timestamp: Date.now(), payload: { from: c.from, to: c.to } }))
diffsOf(conflicts, t) ==
  [i \in DOMAIN conflicts |->
     [sourceInstance |-> conflicts[i].instances[1], timestamp |-> t,
      payload |-> [from |-> conflicts[i].from, to |-> conflicts[i].to]]]

resolveConflict(conflictType, conflicts, strategy, ldr, t) ==
  CASE conflictType = "parallel_snapshots" ->
         resolveParallelSnapshots(snapshotsOf(conflicts, t), strategy, ldr)
    [] conflictType = "concurrent_diffs" ->
         resolveConcurrentDiffs(diffsOf(conflicts, t), strategy, ldr)
    [] OTHER -> [resolved |-> FALSE, reason |-> "unknown_conflict_type"]

\* the conflict records are drawn once, with the type they are passed under
ResolveInit ==
  /\ BaseInit
  /\ bus = InitBus
  /\ conflict \in
       {[op |-> "input", kind |-> "parallel_snapshots", candidates |-> l] :
          l \in ListsOf(SnapshotConflicts)}
       \cup {[op |-> "input", kind |-> k, candidates |-> l] :
               k \in {"concurrent_diffs", "unknown"},
               l \in ListsOf(DiffConflicts)}
  /\ identity = InitIdentity
  /\ journal = InitJournal
  /\ timeSync = InitTimeSync
  /\ periodic = InitPeriodic

ResolveConflict(strategy) ==
  /\ conflict.op # "none"
  /\ conflict' =
       [op |-> "resolveConflict", kind |-> conflict.kind,
        candidates |-> conflict.candidates, strategy |-> strategy,
        leader |-> leader,
        result |-> resolveConflict(conflict.kind, conflict.candidates,
                                   strategy, leader, now)]
  /\ lastOp' = NoOp
  /\ UNCHANGED <<baseVars, bus, identity, journal, timeSync, periodic>>

ResolveNext ==
  \/ \E strategy \in RESOLUTION_STRATEGIES : ResolveConflict(strategy)
  \/ \E id \in InstanceIds : SetLeader(id)
  \/ ClearState

ResolveSpec == ResolveInit /\ [][ResolveNext]_vars

(***************************************************************************)
(* Instance Identity (src/distributed/instance-id.mjs).  The ids that      *)
(* randomUUID produces are numbered 1, 2, ...; NoId is the empty cache and *)
(* the missing record.  A call meets a file system that works, that fails  *)
(* to create the directory or that fails to write the record.  A restart   *)
(* is a new process: the cache is empty, the record is what it was.        *)
(* (The local id "A" of the other sections is the value of this call.)     *)
(***************************************************************************)
MaxUuids == 4

FsOutcomes == {"ok", "mkdirFails", "writeFails"}

\* what a call returns or throws, and the module state after it
identityResult(idn, id, threw) ==
  [identity |-> [idn EXCEPT !.returned = IF threw THEN @ ELSE @ \cup {id}],
   returned |-> id, threw |-> threw]

\* a getInstanceId that never reads the record
getInstanceIdCallIgnoringRecord(idn, fsOutcome) ==
  IF idn.cachedInstanceId # NoId
    THEN identityResult(idn, idn.cachedInstanceId, FALSE)
  ELSE LET id == idn.generated + 1
           made == [idn EXCEPT !.cachedInstanceId = id, !.generated = id]
       IN  IF fsOutcome = "writeFails"
             THEN identityResult(made, NoId, TRUE)
             ELSE identityResult([made EXCEPT !.file = id, !.writes = @ + 1],
                                 id, FALSE)

\* getInstanceId()
getInstanceIdCall(idn, fsOutcome) ==
  IF idn.cachedInstanceId # NoId
    THEN identityResult(idn, idn.cachedInstanceId, FALSE)
  ELSE IF idn.file = NoId /\ fsOutcome = "mkdirFails"
    THEN identityResult(idn, NoId, TRUE)
  ELSE IF idn.file # NoId
    THEN identityResult([idn EXCEPT !.cachedInstanceId = idn.file],
                        idn.file, FALSE)
  ELSE LET id == idn.generated + 1
           \* cachedInstanceId = randomUUID() comes before the write
           made == [idn EXCEPT !.cachedInstanceId = id, !.generated = id]
       IN  IF fsOutcome = "writeFails"
             THEN identityResult(made, NoId, TRUE)
             ELSE identityResult([made EXCEPT !.file = id, !.writes = @ + 1],
                                 id, FALSE)

\* getInstanceMetadata(): the record as read from disk; getInstanceId is
\* called first when the record is missing, and again when it cannot be read
getInstanceMetadata(idn, fsOutcome) ==
  LET first == IF idn.file = NoId THEN getInstanceIdCall(idn, fsOutcome)
               ELSE [identity |-> idn, returned |-> NoId, threw |-> FALSE]
  IN  IF first.threw THEN first
      ELSE IF first.identity.file # NoId
        THEN [first EXCEPT !.returned = first.identity.file]
      ELSE getInstanceIdCall(first.identity, fsOutcome)

\* the call would not ask randomUUID for more ids than the model has
withinUuids(idn) ==
  idn.cachedInstanceId # NoId \/ idn.file # NoId \/ idn.generated < MaxUuids

GetInstanceId(fsOutcome) ==
  /\ withinUuids(identity)
  /\ LET r == getInstanceIdCall(identity, fsOutcome)
     IN  /\ identity' = r.identity
         /\ lastOp' = [op |-> "getInstanceId", returned |-> r.returned,
                       threw |-> r.threw, before |-> identity]
  /\ UNCHANGED <<baseVars, bus, conflict, journal, timeSync, periodic>>

GetInstanceMetadata(fsOutcome) ==
  /\ withinUuids(identity)
  /\ LET r == getInstanceMetadata(identity, fsOutcome)
     IN  /\ identity' = r.identity
         /\ lastOp' = [op |-> "getInstanceMetadata", returned |-> r.returned,
                       threw |-> r.threw, before |-> identity]
  /\ UNCHANGED <<baseVars, bus, conflict, journal, timeSync, periodic>>

\* the process ends and a new one starts
Restart ==
  /\ identity' = [identity EXCEPT !.cachedInstanceId = NoId, !.returned = {}]
  /\ lastOp' = NoOp
  /\ UNCHANGED <<baseVars, bus, conflict, journal, timeSync, periodic>>

\* the identity record is lost between two runs (a new installation)
RemoveRecord ==
  /\ identity.cachedInstanceId = NoId
  /\ identity.file # NoId
  /\ identity' = [identity EXCEPT !.file = NoId]
  /\ lastOp' = NoOp
  /\ UNCHANGED <<baseVars, bus, conflict, journal, timeSync, periodic>>

IdentityNext ==
  \/ \E fsOutcome \in FsOutcomes : GetInstanceId(fsOutcome)
  \/ \E fsOutcome \in FsOutcomes : GetInstanceMetadata(fsOutcome)
  \/ Restart
  \/ RemoveRecord

IdentitySpec == Init /\ [][IdentityNext]_vars

(***************************************************************************)
(* Event Journal (src/unnamed/part_012, lines 252-357).  A line of the     *)
(* file is the JSON text of an entry, modelled as the sequence of its      *)
(* <<key, value>> pairs in the order written: JSON.stringify leaves out a   *)
(* key whose value is undefined, and JSON.parse builds an object with the  *)
(* keys the text holds.  Undefined and null are the strings below.         *)
(***************************************************************************)
MaxAppends == 3

Undefined == "undefined"
Null == "null"

JournalEvents ==
  [type : EventTypes, sourceInstance : {"A", "B", Undefined},
   payloadHash : {"hash-1", Undefined}, payload : {"payload-1"}]

\* event.payloadHash || null
orNull(v) == IF v = Undefined THEN Null ELSE v

\* id and timestamp are numbers; the other values are strings or undefined
NumberKeys == {"id", "timestamp"}
isUndefined(object, k) == k \notin NumberKeys /\ object[k] = Undefined

\* JSON.stringify(object) for the keys given in order
stringify(keys, object) ==
  LET RECURSIVE pairs(_)
      pairs(ks) ==
        IF ks = <<>> THEN <<>>
        ELSE IF isUndefined(object, Head(ks)) THEN pairs(Tail(ks))
        ELSE <<(<<Head(ks), object[Head(ks)]>>)>> \o pairs(Tail(ks))
  IN  pairs(keys)

\* JSON.parse(line)
parse(line) ==
  [k \in {line[i][1] : i \in DOMAIN line} |->
     LET i == CHOOSE i \in DOMAIN line : line[i][1] = k IN line[i][2]]

\* an entry that carries the payload as well
entryWithPayload(event) ==
  stringify(<<"id", "type", "timestamp", "sourceInstance", "payloadHash",
              "payload">>,
            [id |-> event.id, type |-> event.type,
             timestamp |-> event.timestamp,
             sourceInstance |-> event.sourceInstance,
             payloadHash |-> orNull(event.payloadHash),
             payload |-> event.payload])

\* the entry append writes
entry(event) ==
  stringify(<<"id", "type", "timestamp", "sourceInstance", "payloadHash">>,
            [id |-> event.id, type |-> event.type,
             timestamp |-> event.timestamp,
             sourceInstance |-> event.sourceInstance,
             payloadHash |-> orNull(event.payloadHash)])

\* initialize(): the directory and an empty file are created when missing
journalInitialize(j) == [j EXCEPT !.dir = TRUE, !.exists = TRUE]

\* append(event): appendFileSync creates the file when it is missing; it
\* throws when the directory is missing or the write fails
append(j, event, writeOk) ==
  IF j.dir /\ writeOk
    THEN [journal |-> [j EXCEPT !.exists = TRUE,
                                !.lines = Append(@, entry(event))],
          threw |-> FALSE]
    ELSE [journal |-> j, threw |-> TRUE]

\* readAll()
readAll(j) ==
  IF ~j.exists THEN <<>> ELSE [i \in DOMAIN j.lines |-> parse(j.lines[i])]

sourceInstanceOf(record) ==
  IF "sourceInstance" \in DOMAIN record THEN record.sourceInstance
  ELSE Undefined

\* filterByInstance(instanceId)
filterByInstance(j, instanceId) ==
  SelectSeq(readAll(j), LAMBDA record : sourceInstanceOf(record) = instanceId)

JournalInitialize ==
  /\ journal' = journalInitialize(journal)
  /\ lastOp' = NoOp
  /\ UNCHANGED <<baseVars, bus, conflict, identity, timeSync, periodic>>

JournalAppend(e, writeOk) ==
  /\ Len(journal.lines) < MaxAppends
  /\ LET event == [id |-> Len(journal.lines) + 1, type |-> e.type,
                   timestamp |-> now, sourceInstance |-> e.sourceInstance,
                   payloadHash |-> e.payloadHash, payload |-> e.payload]
         r == append(journal, event, writeOk)
     IN  /\ journal' = r.journal
         /\ lastOp' = [op |-> "append", event |-> event, threw |-> r.threw,
                       before |-> readAll(journal)]
  /\ UNCHANGED <<baseVars, bus, conflict, identity, timeSync, periodic>>

JournalFilterByInstance(instanceId) ==
  /\ lastOp' = [op |-> "filterByInstance", instanceId |-> instanceId,
                returned |-> filterByInstance(journal, instanceId)]
  /\ UNCHANGED <<baseVars, extVars>>

JournalNext ==
  \/ JournalInitialize
  \/ \E e \in JournalEvents, writeOk \in BOOLEAN : JournalAppend(e, writeOk)
  \/ \E instanceId \in {"A", "B"} : JournalFilterByInstance(instanceId)

JournalSpec == Init /\ [][JournalNext]_vars

(***************************************************************************)
(* Periodic timers of the heartbeat (src/unnamed/part_011), the election   *)
(* (src/unnamed/part_012) and Time Sync (src/unnamed/part_013).  Each      *)
(* subsystem has a running flag and a timer variable; live counts the      *)
(* intervals it has set and not cleared.  A start runs the first cycle     *)
(* itself; the interval runs the later ones.                               *)
(***************************************************************************)
\* a start that does not look at the running flag
startPeriodicUnguarded(p, s) ==
  [p EXCEPT ![s] = [isRunning |-> TRUE, timer |-> TRUE, live |-> @.live + 1]]

\* if (isRunning) return; isRunning = true; ...; timer = setInterval(...)
startPeriodic(p, s) ==
  IF p[s].isRunning THEN p
  ELSE [p EXCEPT ![s] = [isRunning |-> TRUE, timer |-> TRUE,
                         live |-> @.live + 1]]

\* if (!isRunning) return; if (timer) { clearInterval(timer); timer = null }
\* isRunning = false
stopPeriodic(p, s) ==
  IF ~p[s].isRunning THEN p
  ELSE [p EXCEPT ![s] = [isRunning |-> FALSE, timer |-> FALSE,
                         live |-> IF @.timer THEN @.live - 1 ELSE @.live]]

StartHeartbeat ==
  LET next == startPeriodic(periodic, "heartbeat")
  IN  /\ periodic' = next
      /\ IF next # periodic
           THEN sendHeartbeat
           ELSE UNCHANGED <<participants, hbInFlight>>
      /\ lastOp' = NoOp
      /\ UNCHANGED <<now, leader, syncVars, elections, cluster, lockVars, run,
                     bus, conflict, identity, journal, timeSync>>

StopHeartbeat ==
  /\ periodic' = stopPeriodic(periodic, "heartbeat")
  /\ lastOp' = NoOp
  /\ UNCHANGED <<baseVars, bus, conflict, identity, journal, timeSync>>

\* the interval of startHeartbeat fires
HeartbeatTimerFire ==
  /\ periodic.heartbeat.live > 0
  /\ SendHeartbeat

StartParticipation(instances) ==
  LET next == startPeriodic(periodic, "election")
  IN  /\ periodic' = next
      /\ IF next # periodic
           THEN performElection(instances)
           ELSE lastOp' = NoOp /\ UNCHANGED <<leader, elections>>
      /\ UNCHANGED <<now, participants, syncVars, hbInFlight, cluster,
                     lockVars, run, bus, conflict, identity, journal,
                     timeSync>>

StopParticipation ==
  /\ periodic' = stopPeriodic(periodic, "election")
  /\ lastOp' = NoOp
  /\ UNCHANGED <<baseVars, bus, conflict, identity, journal, timeSync>>

\* the interval of startParticipation fires
ElectionTimerFire(instances) ==
  /\ periodic.election.live > 0
  /\ PerformElection(instances)

(***************************************************************************)
(* Time Sync (src/unnamed/part_013, lines 1-293).  The k-th measurement    *)
(* that completes measures a drift of k ms, so that every sample of the    *)
(* history is told from the others.                                        *)
(***************************************************************************)
MAX_DRIFT_HISTORY == 100

MaxMeasurements == 102
MaxDriftInFlight == 1
MaxCycles == 2

\* a leader that the discovery list of the local instance does not hold
UnlistedId == "D"

\* the cycle asks the leader: it is set, remote and in the discovery list
asksLeader(ldr) ==
  /\ ldr # NullLeader
  /\ ldr.id # getInstanceId
  /\ ldr.id \in Peers

\* measureDrift up to its await, or to its end when it does not ask
measureDriftStart(ts, ldr) ==
  IF ldr = NullLeader THEN [ts EXCEPT !.currentDrift = 0]
  ELSE IF ldr.id = getInstanceId THEN [ts EXCEPT !.currentDrift = 0]
  ELSE IF ldr.id \notin Peers THEN ts
  ELSE [ts EXCEPT !.inFlight = @ + 1]

\* a completion that never drops a sample
measureDriftDoneKeepingAll(ts, drift, t) ==
  [ts EXCEPT !.currentDrift = drift,
             !.driftHistory = Append(@, [timestamp |-> t, drift |-> drift]),
             !.inFlight = @ - 1, !.measured = @ + 1]

\* measureDrift after measureDriftFromLeader resolved with drift
measureDriftDone(ts, drift, t) ==
  LET pushed == Append(ts.driftHistory, [timestamp |-> t, drift |-> drift])
  IN  [ts EXCEPT !.currentDrift = drift,
                 !.driftHistory = IF Len(pushed) > MAX_DRIFT_HISTORY
                                    THEN Tail(pushed) ELSE pushed,
                 !.inFlight = @ - 1, !.measured = @ + 1]

\* the cycle would not start more measurements than the model allows
withinCycles(limit) ==
  asksLeader(leader) =>
    /\ timeSync.inFlight < MaxDriftInFlight
    /\ timeSync.measured + timeSync.inFlight < limit

measureDrift(limit) ==
  /\ withinCycles(limit)
  /\ timeSync' = measureDriftStart(timeSync, leader)

StartTimeSync(limit) ==
  LET next == startPeriodic(periodic, "timeSync")
  IN  /\ periodic' = next
      /\ IF next # periodic
           THEN measureDrift(limit)
           ELSE UNCHANGED timeSync
      /\ lastOp' = [op |-> "startTimeSync", measured |-> next # periodic,
                    leader |-> leader.id]
      /\ UNCHANGED <<baseVars, bus, conflict, identity, journal>>

StopTimeSync ==
  /\ periodic' = stopPeriodic(periodic, "timeSync")
  /\ lastOp' = NoOp
  /\ UNCHANGED <<baseVars, bus, conflict, identity, journal, timeSync>>

\* the interval of startTimeSync fires
DriftTimerFire(limit) ==
  /\ periodic.timeSync.live > 0
  /\ measureDrift(limit)
  /\ lastOp' = [op |-> "measureDrift", measured |-> TRUE,
                leader |-> leader.id]
  /\ UNCHANGED <<baseVars, bus, conflict, identity, journal, periodic>>

MeasureDriftDone ==
  /\ timeSync.inFlight > 0
  /\ timeSync' = measureDriftDone(timeSync, timeSync.measured + 1, now)
  /\ lastOp' = NoOp
  /\ UNCHANGED <<baseVars, bus, conflict, identity, journal, periodic>>

TimeSyncNext ==
  \/ StartTimeSync(MaxMeasurements)
  \/ StopTimeSync
  \/ DriftTimerFire(MaxMeasurements)
  \/ MeasureDriftDone
  \/ \E id \in InstanceIds \cup {UnlistedId} : SetLeader(id)
  \/ ClearState

TimeSyncSpec == Init /\ [][TimeSyncNext]_vars

\* the three subsystems started, stopped and cycling side by side
PeriodicNext ==
  \/ StartHeartbeat
  \/ StopHeartbeat
  \/ HeartbeatTimerFire
  \/ SendHeartbeatDone
  \/ \E instances \in DiscoveryLists : StartParticipation(instances)
  \/ StopParticipation
  \/ \E instances \in DiscoveryLists : ElectionTimerFire(instances)
  \/ \E i \in 1..MaxElections, health \in BOOLEAN : ElectionProbeDone(i, health)
  \/ StartTimeSync(MaxCycles)
  \/ StopTimeSync
  \/ DriftTimerFire(MaxCycles)
  \/ MeasureDriftDone
  \/ \E id \in Peers : SetLeader(id)

PeriodicSpec == Init /\ [][PeriodicNext]_vars

(***************************************************************************)
(* The Sync Engine on the Event Bus (src/distributed/sync-engine.mjs,      *)
(* lines 51-132).  initialize subscribes onSnapshotCreated to              *)
(* SNAPSHOT_CREATED and onDiffCreated to DIFF_CREATED; both are            *)
(* synchronous, and the body of such a handler is run in the step that     *)
(* settles its invocation.  onAnyEvent is another subscriber.              *)
(***************************************************************************)
CreationTypes == {"SNAPSHOT_CREATED", "DIFF_CREATED"}
SyncHandlers == {"onSnapshotCreated", "onDiffCreated"}

currentHandler(b, k) == b.drains[k].handlers[b.drains[k].idx]

\* onSnapshotCreated / onDiffCreated: publish an event of the same type,
\* append it to the journal; a failure of the append is caught
onCreated(b, j, type, t, writeOk) ==
  LET published == publish(b, type)
      event == [id |-> Len(published.published), type |-> type,
                timestamp |-> t, sourceInstance |-> getInstanceId,
                payloadHash |-> Undefined, payload |-> "payload-1"]
  IN  [bus |-> published, journal |-> append(j, event, writeOk).journal]

\* the invocation of a Sync Engine handler by activation k, to its end
SyncHandlerSettled(k, writeOk) ==
  /\ k \in DOMAIN bus.drains
  /\ currentHandler(bus, k) \in SyncHandlers
  /\ Len(bus.published) < MaxEvents
  /\ LET r == onCreated(bus, journal, bus.drains[k].event.type, now, writeOk)
     IN  /\ bus' = handlerSettled(r.bus, k, "ok")
         /\ journal' = r.journal
  /\ lastOp' = [op |-> "onCreated", type |-> bus.drains[k].event.type]
  /\ UNCHANGED <<baseVars, conflict, identity, timeSync, periodic>>

\* the invocation of any other handler settles
OtherHandlerSettled(k, outcome) ==
  /\ k \in DOMAIN bus.drains
  /\ currentHandler(bus, k) \notin SyncHandlers
  /\ HandlerSettled(k, outcome)

\* the one creation event published from outside
PublishCreated(type) ==
  /\ bus.published = <<>>
  /\ Publish(type)

SyncBusNext ==
  \/ \E type \in CreationTypes : PublishCreated(type)
  \/ \E k \in 1..MaxEvents, writeOk \in BOOLEAN : SyncHandlerSettled(k, writeOk)
  \/ \E k \in 1..MaxEvents, outcome \in HandlerOutcomes :
       OtherHandlerSettled(k, outcome)
  \/ JournalInitialize

SyncBusSpec == Init /\ [][SyncBusNext]_vars

(***************************************************************************)
(* Properties of the Sync Engine (Spec, QuorumSpec, OrderSpec)             *)
(***************************************************************************)
ProposeOps == {"proposeSnapshot", "proposeDiff"}
ApplyIncomingOps == {"applyIncomingSnapshot", "applyIncomingDiff"}
AcceptEvents == {"SNAPSHOT_ACCEPT", "DIFF_ACCEPT"}

\* the participants other than the local instance, and the healthy or
\* degraded ones among them
othersOf(parts) == (DOMAIN parts) \ {getInstanceId}
healthyOthersOf(parts) ==
  {p \in othersOf(parts) : parts[p].status \in {"healthy", "degraded"}}

\* the quorum of a cluster of n other instances of which h are healthy
quorumOf(n, h) ==
  [total |-> n + 1, healthy |-> h + 1, required |-> CeilHalf(n + 1),
   sufficient |-> h + 1 >= CeilHalf(n + 1)]

\* the number of accept votes in a votes map
acceptsIn(votes) == Cardinality({v \in DOMAIN votes : votes[v].vote = "accept"})

\* the last operation reached quorum for a proposal and its apply step failed
applyFailedInLastOp ==
  /\ lastOp.op \in ProposeOps \cup {"collectVote"}
  /\ lastOp.applied # <<>>
  /\ ~lastOp.applied[1].ok

\* C1: for every proposal id the apply step is triggered at most once, and
\* once it has been triggered for an id (the proposal being removed by the
\* same call) no later collectVote finds that id active again.
C1_ApplyOncePerProposalId ==
  \A id \in ProposalIds :
    /\ applyCount[id] <= 1
    /\ (applyCount[id] >= 1 => ~MapHas(activeProposals, id))

\* C2: the quorum reported by getQuorumInfo, and the one proposeSnapshot /
\* proposeDiff use, is total = N+1, healthy = H+1, required = ceil((N+1)/2),
\* sufficient <=> H+1 >= required, N being the number of instances other
\* than the local one in Coordinator State and H the healthy or degraded
\* ones among them.
C2_QuorumCountsOtherInstances ==
  LET expected == quorumOf(Cardinality(othersOf(participants)),
                           Cardinality(healthyOthersOf(participants)))
  IN  /\ lastOp.op = "getQuorumInfo" => lastOp.result = expected
      /\ (lastOp.op \in ProposeOps /\ lastOp.phase = "skipped")
           => lastOp.result.quorum = expected
      /\ (lastOp.op \in ProposeOps /\ lastOp.phase = "broadcast")
           => lastOp.quorum = expected

\* C3: a proposeSnapshot / proposeDiff call made while the healthy count
\* plus one is below ceil((participants + 1) / 2) returns {success: false,
\* reason: 'insufficient_quorum', quorum}, publishes exactly one
\* quorum-skipped event and applies nothing, and leaves the active
\* proposals (with their votes), the suspended broadcasts and the apply
\* counts as they were.
C3_InsufficientQuorumSkips ==
  [][LET count == Cardinality(getParticipants(participants))
         healthy == getHealthyParticipantsCount(participants)
     IN  (/\ lastOp'.op \in ProposeOps
          /\ lastOp'.phase \in {"skipped", "broadcast"}
          /\ healthy + 1 < CeilHalf(count + 1))
         => /\ lastOp'.phase = "skipped"
            /\ lastOp'.result =
                 [success |-> FALSE, reason |-> "insufficient_quorum",
                  quorum |-> [total |-> count + 1, healthy |-> healthy + 1,
                              required |-> CeilHalf(count + 1),
                              sufficient |-> FALSE]]
            /\ lastOp'.published = <<"SKIPPED_QUORUM">>
            /\ lastOp'.applied = <<>>
            /\ UNCHANGED <<activeProposals, calls, created, applyCount>>]_vars

\* C3 happens: a propose call was skipped for insufficient quorum while
\* another proposal was active.
C3_SkippedWhileProposalActive ==
  /\ lastOp.op \in ProposeOps
  /\ lastOp.phase = "skipped"
  /\ DOMAIN activeProposals # {}

C5_OutcomeIndependentOfOrder ==
  (run.phase = "order" /\ run.left = <<{}, {}>>)
    => run.applied[1] = run.applied[2]

C7_FailedApplyIsTerminal ==
  /\ [](applyFailedInLastOp =>
          /\ IF lastOp.op = "collectVote"
             THEN lastOp.result.success /\ lastOp.result.quorumReached
             ELSE lastOp.result.success /\ lastOp.selfVote.success
          /\ lastOp.published = <<>>
          /\ ~MapHas(activeProposals, lastOp.proposalId)
          /\ \A v \in InstanceIds, vote \in VoteValues, applyOk \in BOOLEAN :
               LET again == collectVote(activeProposals, participants,
                                        lastOp.proposalId, v, vote, now,
                                        applyOk)
               IN  /\ again.result = [success |-> FALSE,
                                      reason |-> "proposal_not_found"]
                   /\ again.applied = <<>>
                   /\ again.proposals = activeProposals)
  /\ [][applyFailedInLastOp
          => ~MapHas(activeProposals', lastOp.proposalId)]_vars

\* C7 happens: a vote delivered from outside reached quorum and the apply
\* step failed.
C7_ApplyFailedAtQuorum ==
  /\ lastOp.op = "collectVote"
  /\ lastOp.applied # <<>>
  /\ ~lastOp.applied[1].ok

(***************************************************************************)
(* Properties of the Lock Service (LockSpec)                               *)
(***************************************************************************)
\* C8: an acquireLock call made while the local instance is not the leader
\* (no leader recorded, or another instance recorded) returns false with
\* the not_leader outcome, whatever the resource, the ttl and the lock
\* table hold, and leaves the lock table and the renewal timers unchanged.
C8_NotLeaderCannotAcquire ==
  [][(/\ lastOp'.op = "acquireLock"
      /\ (leader = NullLeader \/ leader.id # getInstanceId))
     => /\ lastOp'.result = FALSE
        /\ lastOp'.reason = "not_leader"
        /\ UNCHANGED <<activeLocks, renewalTimers>>]_vars

\* C8 happens: acquireLock was refused as not_leader for a resource whose
\* lock is recorded and not expired.
C8_RefusedOnActiveLock ==
  /\ lastOp.op = "acquireLock"
  /\ lastOp.reason = "not_leader"
  /\ lastOp.before = "active"
  /\ MapHas(activeLocks, lastOp.resource)

\* C10: an acquireLock call by the leader on a resource whose recorded lock
\* has expiresAt <= now returns true and replaces the stale lock and its
\* renewal timer: the new lock has holder = the caller, acquiredAt = now and
\* expiresAt = now + ttl, and the resource's only timer is the one started
\* by this call.
C10_ExpiredLockIsReplaced ==
  [][\A r \in Resources :
       (/\ lastOp'.op = "acquireLock"
        /\ lastOp'.resource = r
        /\ leader # NullLeader
        /\ leader.id = getInstanceId
        /\ MapHas(activeLocks, r)
        /\ activeLocks[r].expiresAt <= now)
       => /\ lastOp'.result = TRUE
          /\ activeLocks'[r] = [resource |-> r, holder |-> getInstanceId,
                                acquiredAt |-> now,
                                expiresAt |-> now + lastOp'.ttl]
          /\ renewalTimers'[r] = [ttl |-> lastOp'.ttl,
                                  next |-> now + LOCK_RENEWAL_INTERVAL]
          /\ \A q \in Resources \ {r} :
               /\ MapHas(activeLocks', q) = MapHas(activeLocks, q)
               /\ MapHas(activeLocks, q) => activeLocks'[q] = activeLocks[q]]_vars

\* C10 happens: the leader acquired a resource whose recorded lock had
\* expired with its renewal timer still armed.
C10_AcquiredOverExpiredLock ==
  /\ lastOp.op = "acquireLock"
  /\ lastOp.before = "expired"
  /\ lastOp.result = TRUE
  /\ MapHas(activeLocks, lastOp.resource)
  /\ activeLocks[lastOp.resource].acquiredAt = now
  /\ activeLocks[lastOp.resource].acquiredAt > StartTime

\* C11: a renewal tick that finds its lock in the table while the local
\* instance is not the leader removes the lock and cancels its renewal
\* timer, with no releaseLock call from outside; expiresAt is not extended
\* (no lock of the resource is left), and the other resources are untouched.
C11_TickOfNonLeaderReleases ==
  [][\A r \in Resources :
       (/\ lastOp'.op = "renewalTick"
        /\ lastOp'.resource = r
        /\ MapHas(activeLocks, r)
        /\ ~(leader # NullLeader /\ leader.id = getInstanceId))
       => /\ ~MapHas(activeLocks', r)
          /\ ~MapHas(renewalTimers', r)
          /\ \A q \in Resources \ {r} :
               /\ MapHas(activeLocks', q) = MapHas(activeLocks, q)
               /\ MapHas(activeLocks, q) => activeLocks'[q] = activeLocks[q]]_vars

\* C11 happens: another instance is the leader and the renewal tick of a
\* lock that was still unexpired has just removed it.
C11_ReleasedByTickAfterLeaderChange ==
  /\ lastOp.op = "renewalTick"
  /\ lastOp.before = "active"
  /\ leader # NullLeader
  /\ leader.id # getInstanceId
  /\ ~MapHas(activeLocks, lastOp.resource)
  /\ ~MapHas(renewalTimers, lastOp.resource)

\* C12: when every acquireLock uses the default TTL and the renewal timers
\* fire on the default cadence, no lock in the table is ever expired:
\* expiresAt > now for each of them, in every state.  (A lock is in the
\* table at least as long as the instance stays leader and does not
\* release it.)
C12_DefaultLeaseNeverExpires ==
  \A r \in DOMAIN activeLocks : activeLocks[r].expiresAt > now

\* C12 happens: the local instance is the leader and holds a lock that it
\* acquired at least one default TTL ago.
C12_LeaseOlderThanTtl ==
  /\ leader # NullLeader
  /\ leader.id = getInstanceId
  /\ leader.electedAt = StartTime
  /\ \E r \in DOMAIN activeLocks :
       /\ activeLocks[r].acquiredAt + LOCK_TTL <= now
       /\ activeLocks[r].expiresAt > now

\* C13: an acquireLock call by the leader on a resource whose unexpired lock
\* it holds succeeds, keeps holder and acquiredAt, creates no second lock or
\* timer, and does not move expiresAt to an earlier time, whatever the ttl.
C13_ReacquireExtendsExpiry ==
  [][\A r \in Resources :
       (/\ lastOp'.op = "acquireLock"
        /\ lastOp'.resource = r
        /\ leader # NullLeader
        /\ leader.id = getInstanceId
        /\ MapHas(activeLocks, r)
        /\ activeLocks[r].expiresAt > now
        /\ activeLocks[r].holder = getInstanceId)
       => /\ lastOp'.result = TRUE
          /\ MapHas(activeLocks', r)
          /\ activeLocks'[r].holder = activeLocks[r].holder
          /\ activeLocks'[r].acquiredAt = activeLocks[r].acquiredAt
          /\ DOMAIN activeLocks' = DOMAIN activeLocks
          /\ renewalTimers' = renewalTimers
          /\ activeLocks'[r].expiresAt >= activeLocks[r].expiresAt]_vars

\* C13 happens: the leader called acquireLock on its own unexpired lock and
\* the call took the renewal branch.
C13_ReacquiredOwnLock ==
  /\ lastOp.op = "acquireLock"
  /\ lastOp.reason = "LOCK_RENEWED"
  /\ lastOp.result = TRUE
  /\ MapHas(activeLocks, lastOp.resource)

C15_CleanupRemovesExactlyExpired ==
  [][lastOp'.op = "cleanupExpiredLocks"
     => /\ \A r \in DOMAIN activeLocks' : activeLocks'[r].expiresAt > now'
        /\ \A r \in DOMAIN activeLocks :
             IF activeLocks[r].expiresAt <= now
             THEN ~MapHas(activeLocks', r) /\ ~MapHas(renewalTimers', r)
             ELSE /\ MapHas(activeLocks', r)
                  /\ activeLocks'[r] = activeLocks[r]
                  /\ MapHas(renewalTimers', r) = MapHas(renewalTimers, r)
                  /\ MapHas(renewalTimers, r)
                       => renewalTimers'[r] = renewalTimers[r]
        /\ DOMAIN activeLocks' \subseteq DOMAIN activeLocks]_vars

\* C15 happens: cleanupExpiredLocks removed an expired lock and left an
\* unexpired one in the table.
C15_SweptOneKeptOne ==
  /\ lastOp.op = "cleanupExpiredLocks"
  /\ lastOp.expired # {}
  /\ activeLocks # EmptyMap
  /\ \A r \in lastOp.expired : ~MapHas(activeLocks, r)

C17_LocalInstanceNotParticipant == ~MapHas(participants, getInstanceId)

\* C18: an election over a candidate list elects the candidate with the
\* greatest running time of its own, ties going to the greatest id, among
\* the local instance and the peers whose probe succeeded in that cycle.
\* Every process of the cluster started when the local one did.
C18_LongestRunningCandidateWins ==
  (lastOp.op = "performElection" /\ lastOp.branch = "candidates")
  => lastOp.result =
       topCandidate({[id |-> i, uptime |-> processUptime(now),
                      isLocal |-> i = getInstanceId] :
                       i \in lastOp.reachable \cup {getInstanceId}}).id

\* C18 happens: an election ended with a peer whose probe succeeded among
\* the candidates.
C18_ElectedAmongReachablePeers ==
  /\ lastOp.op = "performElection"
  /\ lastOp.branch = "candidates"
  /\ lastOp.reachable # {}

\* C19: an election cycle, in either branch, publishes nothing when the
\* elected leader is the one recorded just before, LEADER_ELECTED alone
\* when none was recorded, and LEADER_CHANGED alone when a different one
\* was.
C19_OneEventPerLeaderChange ==
  lastOp.op = "performElection"
  => lastOp.published =
       IF lastOp.result = lastOp.previousLeader THEN <<>>
       ELSE IF lastOp.previousLeader = NullLeader.id
            THEN <<"LEADER_ELECTED">> ELSE <<"LEADER_CHANGED">>

\* C19 happens: an election replaced a recorded leader by a different one.
C19_ElectionChangedLeader ==
  /\ lastOp.op = "performElection"
  /\ lastOp.previousLeader # NullLeader.id
  /\ lastOp.previousLeader # lastOp.result

\* C20: in a cluster whose processes all reach one another, from some
\* election cycle on every process records the same leader.
C20_LeaderViewsConverge ==
  <>[](\A i \in InstanceIds, j \in InstanceIds :
         /\ cluster[i].leader # NullLeader.id
         /\ cluster[i].leader = cluster[j].leader)

\* C20 happens: every process of the cluster has completed an election.
C20_EveryProcessElected ==
  /\ DOMAIN cluster = InstanceIds
  /\ \A i \in InstanceIds : cluster[i].leader # NullLeader.id /\ cluster[i].idx = 0

(***************************************************************************)
(* Properties of the Event Bus (BusSpec)                                   *)
(***************************************************************************)
\* the invocations the events of a publication sequence call for: for each
\* event in order, each of its handlers in order
RECURSIVE expectedDeliveries(_)
expectedDeliveries(events) ==
  IF events = <<>> THEN <<>>
  ELSE LET hs == handlersFor(Head(events))
       IN  [i \in 1..Len(hs) |-> <<Head(events).id, hs[i]>>]
             \o expectedDeliveries(Tail(events))

deliveries(log) == [i \in DOMAIN log |-> <<log[i].event, log[i].handler>>]

IsPrefix(s, t) == Len(s) <= Len(t) /\ SubSeq(t, 1, Len(s)) = s

\* C21: delivery is first-in first-out and non-re-entrant.  The handler
\* invocations made so far are an initial part of the sequence "for each
\* published event in publication order, each of its handlers in order"; an
\* invocation starts only when every earlier one has settled, so an event
\* published while another is being delivered waits for all the handlers of
\* that one; at most one processQueue activation and one handler invocation
\* are in progress at any time.
C21_FifoAndNonReentrant ==
  /\ Len(bus.drains) <= 1
  /\ IsPrefix(deliveries(bus.log), expectedDeliveries(bus.published))
  /\ \A i \in DOMAIN bus.log :
       bus.log[i].outcome = "running" => i = Len(bus.log) /\ bus.drains # <<>>

\* C21 witness: an event published while a handler of an earlier event was
\* in progress has been delivered to its handlers.
C21_NestedEventDelivered ==
  \E i \in DOMAIN bus.published :
    /\ bus.published[i].queued
    /\ \E j \in DOMAIN bus.log : bus.log[j].event = bus.published[i].id

\* C22: a handler that throws or rejects does not stop delivery.  Whenever
\* no processQueue activation is left, the bus is idle (empty queue, not
\* processing) and every handler of every published event has been invoked,
\* whatever the outcomes of the handlers were.
C22_ThrowDoesNotStopDelivery ==
  bus.drains = <<>> =>
    /\ ~bus.isProcessing
    /\ bus.eventQueue = <<>>
    /\ deliveries(bus.log) = expectedDeliveries(bus.published)

\* C22 witness: the bus is idle again after a handler threw, and handlers
\* of the same event and of a later event were invoked after the throw.
C22_IdleAfterThrow ==
  /\ bus.drains = <<>>
  /\ ~bus.isProcessing
  /\ \E i, j, k \in DOMAIN bus.log :
       /\ i < j /\ j < k
       /\ bus.log[i].outcome = "throw"
       /\ bus.log[j].event = bus.log[i].event
       /\ bus.log[k].event # bus.log[i].event

(***************************************************************************)
(* Properties of Conflict Resolution (ConflictSpec)                        *)
(***************************************************************************)
ResolveOps == {"resolveParallelSnapshots", "resolveConcurrentDiffs"}

resolvedNonEmpty(strategy) ==
  /\ conflict.op \in ResolveOps
  /\ conflict.strategy = strategy
  /\ conflict.candidates # <<>>

winnerIsMember ==
  \E i \in DOMAIN conflict.candidates :
    conflict.candidates[i] = conflict.result.winner

\* C23: over a non-empty list last-write-wins returns resolved:true with a
\* winner that is a member of the list and whose timestamp is the greatest
\* timestamp of the list.
C23_LastWriteWinsPicksMaximum ==
  resolvedNonEmpty("last-write-wins") =>
    /\ conflict.result.resolved
    /\ winnerIsMember
    /\ \A i \in DOMAIN conflict.candidates :
         conflict.candidates[i].timestamp <= conflict.result.winner.timestamp

\* C23 witness: last-write-wins picked the second of two candidates, the one
\* with the later timestamp.
C23_LaterSecondCandidateWon ==
  /\ resolvedNonEmpty("last-write-wins")
  /\ Len(conflict.candidates) = 2
  /\ conflict.candidates[1].timestamp < conflict.candidates[2].timestamp
  /\ conflict.result.winner = conflict.candidates[2]

leaderHasCandidate ==
  /\ conflict.leader # NullLeader
  /\ \E i \in DOMAIN conflict.candidates :
       conflict.candidates[i].sourceInstance = conflict.leader.id

\* C24: over a non-empty list leader-wins returns a candidate of the list
\* whose source instance is the current leader when a leader is set and the
\* list holds such a candidate; otherwise its winner is the winner of
\* last-write-wins over the same list.
C24_LeaderWinsOrFallsBack ==
  resolvedNonEmpty("leader-wins") =>
    /\ conflict.result.resolved
    /\ winnerIsMember
    /\ IF leaderHasCandidate
         THEN conflict.result.winner.sourceInstance = conflict.leader.id
         ELSE conflict.result.winner = lastWriteWins(conflict.candidates).winner

\* C24 witness: the leader's candidate won against a candidate with a later
\* timestamp.
C24_LeaderBeatLaterCandidate ==
  /\ resolvedNonEmpty("leader-wins")
  /\ leaderHasCandidate
  /\ \E i \in DOMAIN conflict.candidates :
       conflict.candidates[i].timestamp > conflict.result.winner.timestamp

allKeysEqual ==
  \A i, j \in DOMAIN conflict.keys : conflict.keys[i] = conflict.keys[j]

\* C25: over a non-empty list reject-inconsistent returns resolved:true with
\* a member of the list exactly when all candidates carry the same hash
\* (snapshots) or target version (diffs); when two differ it returns
\* resolved:false with a reason and no winner.
C25_RejectInconsistentIffMismatch ==
  resolvedNonEmpty("reject-inconsistent") =>
    /\ conflict.result.resolved <=> allKeysEqual
    /\ conflict.result.resolved => winnerIsMember
    /\ ~conflict.result.resolved =>
         /\ conflict.result.reason \in {"hash_mismatch",
                                        "inconsistent_target_versions"}
         /\ "winner" \notin DOMAIN conflict.result

\* C25 witness: two snapshots with different hashes were rejected.
C25_MismatchRejected ==
  /\ resolvedNonEmpty("reject-inconsistent")
  /\ Len(conflict.candidates) = 2
  /\ ~allKeysEqual
  /\ ~conflict.result.resolved

(***************************************************************************)
(* Properties of Instance Identity (IdentitySpec)                          *)
(***************************************************************************)
\* C26: the identity is stable.  All the calls of one process that returned
\* have returned the same id; a call made with an empty cache and a record
\* on disk returns the id of the record and leaves the record, and the
\* number of writes of it, as they were.
C26_IdentityStable ==
  /\ Cardinality(identity.returned) <= 1
  /\ (/\ lastOp.op = "getInstanceId"
      /\ lastOp.before.cachedInstanceId = NoId
      /\ lastOp.before.file # NoId)
       => /\ ~lastOp.threw
          /\ lastOp.returned = lastOp.before.file
          /\ identity.file = lastOp.before.file
          /\ identity.writes = lastOp.before.writes

\* C26 witness: the first call after a restart returned the id of the
\* record written by an earlier process.
C26_StoredIdReturnedAfterRestart ==
  /\ lastOp.op = "getInstanceId"
  /\ lastOp.before.cachedInstanceId = NoId
  /\ lastOp.before.file # NoId
  /\ lastOp.returned = lastOp.before.file

\* C27: a call that failed to persist a new identity throws, and no call
\* returns an id that the identity record does not hold.
C27_NeverNonDurableIdentity ==
  lastOp.op = "getInstanceId" =>
    /\ (lastOp.before.cachedInstanceId = NoId /\ identity.file = NoId)
         => lastOp.threw
    /\ ~lastOp.threw => lastOp.returned = identity.file

\* C27 witness: a call threw because the record could not be written.
C27_PersistFailurePropagated ==
  /\ lastOp.op = "getInstanceId"
  /\ lastOp.threw
  /\ lastOp.before.generated < identity.generated

(***************************************************************************)
(* Properties of the Event Journal (JournalSpec)                           *)
(***************************************************************************)
\* the redacted record of an event: its id, type, timestamp, source instance
\* (when it has one) and payload hash (null when it has none)
redactedRecord(event) ==
  [k \in {"id", "type", "timestamp", "payloadHash"}
         \cup (IF event.sourceInstance = Undefined THEN {}
               ELSE {"sourceInstance"}) |->
     CASE k = "id" -> event.id
       [] k = "type" -> event.type
       [] k = "timestamp" -> event.timestamp
       [] k = "sourceInstance" -> event.sourceInstance
       [] k = "payloadHash" ->
            IF event.payloadHash = Undefined THEN Null ELSE event.payloadHash]

\* the positions of the records of a list that come from an instance
RECURSIVE recordsFrom(_, _)
recordsFrom(records, instanceId) ==
  IF records = <<>> THEN <<>>
  ELSE (IF "sourceInstance" \in DOMAIN Head(records)
           /\ Head(records).sourceInstance = instanceId
          THEN <<Head(records)>> ELSE <<>>)
       \o recordsFrom(Tail(records), instanceId)

\* C28: the journal is append-only.  After an append that returned, readAll
\* is the previous readAll followed by the redacted record of the event
\* (id, type, timestamp, sourceInstance, payloadHash and no payload); an
\* append that threw leaves readAll as it was; filterByInstance returns the
\* records of readAll with that source instance, in the same order.
C28_JournalAppendOnly ==
  /\ lastOp.op = "append" =>
       readAll(journal) =
         IF lastOp.threw THEN lastOp.before
         ELSE Append(lastOp.before, redactedRecord(lastOp.event))
  /\ lastOp.op = "filterByInstance" =>
       lastOp.returned = recordsFrom(readAll(journal), lastOp.instanceId)
  /\ \A i \in DOMAIN journal.lines :
       "payload" \notin DOMAIN readAll(journal)[i]

\* C28 witness: an event with a payload and without a payload hash was
\* appended after another record.
C28_AppendedAfterEarlierRecord ==
  /\ lastOp.op = "append"
  /\ ~lastOp.threw
  /\ lastOp.before # <<>>
  /\ lastOp.event.payloadHash = Undefined
  /\ Len(readAll(journal)) = Len(lastOp.before) + 1

(***************************************************************************)
(* Properties of Time Sync (TimeSyncSpec)                                  *)
(***************************************************************************)
\* C29: the drift history holds at most 100 samples, and they are the latest
\* measurements in the order they were made: with n measurements completed
\* it is the samples n - Len + 1 .. n, so a sample appended to a full
\* history pushes out exactly the oldest.  A cycle that finds no leader, or
\* the local instance as leader, leaves the current drift at 0.
C29_BoundedHistoryInOrder ==
  /\ Len(timeSync.driftHistory) <= MAX_DRIFT_HISTORY
  /\ Len(timeSync.driftHistory) =
       IF timeSync.measured < MAX_DRIFT_HISTORY THEN timeSync.measured
       ELSE MAX_DRIFT_HISTORY
  /\ \A i \in DOMAIN timeSync.driftHistory :
       timeSync.driftHistory[i].drift =
         timeSync.measured - Len(timeSync.driftHistory) + i
  /\ (/\ lastOp.op \in {"startTimeSync", "measureDrift"}
      /\ lastOp.measured
      /\ lastOp.leader \in {NullLeader.id, getInstanceId})
       => timeSync.currentDrift = 0

\* C29 witness: a sample was appended to a full history: 101 measurements
\* have completed and the history holds the second to the last of them.
C29_OldestSampleDropped ==
  /\ timeSync.measured = MAX_DRIFT_HISTORY + 1
  /\ Len(timeSync.driftHistory) = MAX_DRIFT_HISTORY
  /\ timeSync.driftHistory[1].drift = 2
  /\ timeSync.driftHistory[MAX_DRIFT_HISTORY].drift = MAX_DRIFT_HISTORY + 1

(***************************************************************************)
(* Properties of the periodic timers (PeriodicSpec)                        *)
(***************************************************************************)
timersMatchRunning ==
  \A s \in Subsystems :
    /\ periodic[s].live <= 1
    /\ periodic[s].isRunning <=> periodic[s].live = 1
    /\ periodic[s].timer <=> periodic[s].live = 1

oneSubsystemPerStep ==
  Cardinality({s \in Subsystems : periodic'[s] # periodic[s]}) <= 1

\* C30: for the heartbeat, the election and Time Sync, at most one interval
\* is live, one is live exactly when the subsystem is running (so a second
\* start sets no second interval and a stop leaves none that could start a
\* cycle), and a step changes the running state and the timer of at most
\* one subsystem.
C30_OneTimerPerRunningSubsystem ==
  []timersMatchRunning /\ [][oneSubsystemPerStep]_vars

\* C30 witness: the heartbeat is running with its one timer, the election
\* was stopped and has none, and Time Sync was never started.
C30_OneRunningOneStopped ==
  /\ periodic.heartbeat.isRunning
  /\ periodic.heartbeat.live = 1
  /\ ~periodic.election.isRunning
  /\ periodic.election.live = 0
  /\ leader # NullLeader
  /\ ~periodic.timeSync.isRunning

(***************************************************************************)
(* Properties of the Sync Engine on the Event Bus (SyncBusSpec)            *)
(***************************************************************************)
syncInvocations ==
  {i \in DOMAIN bus.log : bus.log[i].handler \in SyncHandlers}

busIdle == bus.eventQueue = <<>> /\ ~bus.isProcessing

\* C31: publishing one creation event terminates.  The Sync Engine's handler
\* is invoked for the one event that was published and the journal holds at
\* most the one record of it; once the handlers of that event have settled
\* the queue is empty and the bus is idle.
C31_CreationBroadcastTerminates ==
  /\ Cardinality(syncInvocations) <= 1
  /\ Len(journal.lines) <= 1
  /\ (\A i \in DOMAIN bus.log : bus.log[i].outcome # "running") => busIdle

\* C31 witness: after one publication the handler has run as often as the
\* model lets events be published, the journal holds a record for every run
\* but the last, and the bus is still processing.
C31_BroadcastStillRunning ==
  /\ Len(bus.published) = MaxEvents
  /\ Cardinality(syncInvocations) = MaxEvents
  /\ Len(journal.lines) = MaxEvents - 1
  /\ ~busIdle

(***************************************************************************)
(* Properties of the vote threshold (Spec)                                 *)
(***************************************************************************)
\* The accept votes of the proposal a successful collectVote call voted on:
\* those handed to the apply step when quorum was reached, and those of the
\* proposal left in the active set otherwise.
acceptVotesAfterVote(result, applied) ==
  IF result.quorumReached
  THEN acceptVotesOf([votes |-> applied[1].votes])
  ELSE acceptVotesOf(activeProposals[result.proposalId])

requiredNow == CeilHalf(Cardinality(getParticipants(participants)) + 1)

\* C32: a collectVote call that finds its proposal, delivered from outside
\* or cast by the proposer at the end of a propose call, reports quorum
\* exactly when the accept votes of the proposal are at least
\* ceil((P + 1) / 2), P being the size of the participants map at the call.
C32_ThresholdFromParticipantsAtVote ==
  /\ (lastOp.op = "collectVote" /\ lastOp.result.success) =>
       (lastOp.result.quorumReached <=>
          acceptVotesAfterVote(lastOp.result, lastOp.applied) >= requiredNow)
  /\ (lastOp.op \in {"proposeSnapshot", "proposeDiff"} /\ lastOp.phase = "return"
        /\ lastOp.selfVote.success) =>
       (lastOp.selfVote.quorumReached <=>
          acceptVotesAfterVote(lastOp.selfVote, lastOp.applied) >= requiredNow)

\* C32 witness: a reject vote reaches quorum.  The accept votes recorded
\* earlier were below the threshold when they were cast, and participants
\* were removed before this call.
C32_RejectVoteReachesLoweredThreshold ==
  /\ lastOp.op = "collectVote"
  /\ lastOp.result.success
  /\ lastOp.result.vote = "reject"
  /\ lastOp.result.quorumReached
  /\ requiredNow < CeilHalf(Len(remoteInstances) + 1)

(***************************************************************************)
(* Properties of the heartbeat timeout (HeartbeatSpec)                     *)
(***************************************************************************)
\* C33: a received heartbeat resets its sender's timeout.  A sweep that runs
\* right after receiveHeartbeat for a peer, at the same clock reading (so
\* less than HEARTBEAT_TIMEOUT after the receipt), does not mark that peer,
\* whatever timestamp the heartbeat carried.
C33_HeartbeatResetsTimeout ==
  [][(lastOp.op = "receiveHeartbeat" /\ lastOp'.op = "checkHeartbeatTimeouts"
        /\ now' = now)
       => lastOp.senderId \notin lastOp'.timedOut]_vars

\* C33 witness: a heartbeat has just been received and the last-heartbeat
\* time recorded for its sender is already more than HEARTBEAT_TIMEOUT
\* before the local clock.
C33_ReceivedHeartbeatAlreadyStale ==
  /\ lastOp.op = "receiveHeartbeat"
  /\ now - participants[lastOp.senderId].lastHeartbeat > HEARTBEAT_TIMEOUT

\* C34: a timeout sweep changes only the status of the participants it
\* marks: their uptime and last-heartbeat time stay as they were, every
\* other participant stays as it was, and so does the leader record.
C34_SweepChangesOnlyStatus ==
  [][lastOp'.op = "checkHeartbeatTimeouts"
       => /\ leader' = leader
          /\ DOMAIN participants' = DOMAIN participants
          /\ \A p \in DOMAIN participants :
                IF p \in lastOp'.timedOut
                THEN /\ participants'[p].uptime = participants[p].uptime
                     /\ participants'[p].lastHeartbeat
                          = participants[p].lastHeartbeat
                ELSE participants'[p] = participants[p]]_vars

\* C34 witness: a sweep has marked a participant, and the last-heartbeat
\* time recorded for it is the time of the sweep.
C34_SweepStampedMarkedParticipant ==
  /\ lastOp.op = "checkHeartbeatTimeouts"
  /\ \E p \in lastOp.timedOut :
        /\ participants[p].status = "unreachable"
        /\ participants[p].lastHeartbeat = now

(***************************************************************************)
(* Properties of expired locks (LockSpec)                                  *)
(***************************************************************************)
\* C35: a renewal tick that finds its lock expired (expiresAt <= now) does
\* not make it unexpired again: if the lock is still in the table after the
\* tick, it is still expired.
C35_TickNeverRevivesExpiredLock ==
  (lastOp.op = "renewalTick" /\ lastOp.before = "expired"
     /\ MapHas(activeLocks, lastOp.resource))
    => ~lockIsActive(activeLocks[lastOp.resource], now)

\* C35 witness: a lock taken with a TTL shorter than the renewal interval
\* was expired when its renewal timer fired and is unexpired after the tick,
\* with the acquisition time of the original acquireLock.
C35_ExpiredLockRevivedByTick ==
  /\ lastOp.op = "renewalTick"
  /\ lastOp.before = "expired"
  /\ MapHas(activeLocks, lastOp.resource)
  /\ lockIsActive(activeLocks[lastOp.resource], now)
  /\ activeLocks[lastOp.resource].acquiredAt < now
  /\ renewalTimers[lastOp.resource].ttl < LOCK_RENEWAL_INTERVAL

(***************************************************************************)
(* Properties of proposal ids (RepeatSpec)                                 *)
(***************************************************************************)
\* C36: a propose call that creates a proposal gives it an id that no
\* active proposal has, so every proposal that was active before the call
\* is still active after it with the votes it had.
C36_NewProposalHasFreshId ==
  [][(lastOp'.op \in {"proposeSnapshot", "proposeDiff"} /\ created' = created + 1)
       => /\ ~MapHas(activeProposals, lastOp'.proposalId)
          /\ \A id \in DOMAIN activeProposals :
                /\ MapHas(activeProposals', id)
                /\ activeProposals'[id].votes = activeProposals[id].votes]_vars

\* C36 witness: two propose calls are suspended in their broadcast with the
\* same proposal id, and the active set holds one proposal, without votes.
C36_TwoCallsShareOneProposal ==
  /\ Len(calls) = 2
  /\ calls[1].proposalId = calls[2].proposalId
  /\ Cardinality(DOMAIN activeProposals) = 1
  /\ activeProposals[calls[1].proposalId].votes = EmptyMap
  /\ lastOp.op \in {"proposeSnapshot", "proposeDiff"}
  /\ lastOp.phase = "broadcast"

(***************************************************************************)
(* Properties of resolveConflict (ResolveSpec)                             *)
(***************************************************************************)
\* The values the conflict records carry under a field.
carried(conflicts, field) == {conflicts[i][field] : i \in DOMAIN conflicts}

resolvedUnder(kind) ==
  /\ conflict.op = "resolveConflict"
  /\ conflict.kind = kind
  /\ conflict.strategy = "reject-inconsistent"

\* The diff half of C37: concurrent diffs with more than one target version
\* are not resolved.
diffsWithTargetsRejected ==
  (resolvedUnder("concurrent_diffs")
     /\ Cardinality(carried(conflict.candidates, "to")) > 1)
    => ~conflict.result.resolved

\* C37: resolveConflict with strategy reject-inconsistent returns
\* resolved:false for parallel snapshots that do not all carry the same
\* hash and for concurrent diffs that do not all carry the same target
\* version.
C37_ResolveConflictRejectsMismatch ==
  /\ (resolvedUnder("parallel_snapshots")
        /\ Cardinality(carried(conflict.candidates, "hash")) > 1)
       => ~conflict.result.resolved
  /\ diffsWithTargetsRejected

\* C37 witness: parallel snapshots with two different hashes were resolved,
\* the first record's instance winning.
C37_MismatchedSnapshotsResolved ==
  /\ resolvedUnder("parallel_snapshots")
  /\ Cardinality(carried(conflict.candidates, "hash")) > 1
  /\ conflict.result.resolved
  /\ conflict.result.winner.sourceInstance = conflict.candidates[1].instances[1]

(***************************************************************************)
(* Properties of the participants map (MembershipSpec)                     *)
(***************************************************************************)
\* C38: a step that is neither removeParticipant nor clearState removes no
\* participant, and the total of the quorum (participants plus one) after
\* it is at least the total before it.
C38_OnlyRemovalShrinksMembership ==
  [][\/ \E p \in InstanceIds : RemoveParticipant(p)
     \/ ClearState
     \/ /\ DOMAIN participants \subseteq DOMAIN participants'
        /\ checkQuorum(participants').total >= checkQuorum(participants).total]_vars

\* C38 witness: a sweep has marked a participant unreachable, and the
\* participant is still in the map, counted in the quorum total, while a
\* leader is recorded and a lock is held.
C38_TimedOutParticipantStillCounted ==
  /\ lastOp.op = "checkHeartbeatTimeouts"
  /\ lastOp.timedOut # {}
  /\ lastOp.timedOut \subseteq DOMAIN participants
  /\ checkQuorum(participants).total = Cardinality(DOMAIN participants) + 1
  /\ leader # NullLeader
  /\ activeLocks # EmptyMap

(***************************************************************************)
(* Properties of small clusters (Spec)                                     *)
(***************************************************************************)
proposeReturned ==
  /\ lastOp.op \in {"proposeSnapshot", "proposeDiff"}
  /\ lastOp.phase = "return"

\* C39: when a propose call that created a proposal returns and the
\* participants map has at most one entry, the proposal is not in the active
\* set and the apply step has been invoked for it; if the proposer's own
\* vote found the proposal, that vote reached quorum and invoked the apply
\* step, whatever votes were recorded before it.
C39_OwnVoteSufficesInSmallCluster ==
  (proposeReturned /\ Cardinality(getParticipants(participants)) <= 1)
    => /\ ~MapHas(activeProposals, lastOp.proposalId)
       /\ applyCount[lastOp.proposalId] >= 1
       /\ lastOp.selfVote.success
            => /\ lastOp.selfVote.quorumReached
               /\ Len(lastOp.applied) = 1
               /\ lastOp.applied[1].proposalId = lastOp.proposalId

\* C39 witness: with one participant, the other instance voted reject
\* during the broadcast, and the proposer's own vote then reached quorum:
\* the proposal was handed to the apply step with both votes on it.
C39_AppliedDespiteReject ==
  /\ proposeReturned
  /\ Cardinality(getParticipants(participants)) = 1
  /\ lastOp.selfVote.success
  /\ lastOp.selfVote.quorumReached
  /\ lastOp.selfVote.votesCount = 2
  /\ hasVoted([x \in {lastOp.proposalId} |-> [votes |-> lastOp.applied[1].votes]],
              lastOp.proposalId, "B", "reject")
  /\ ~MapHas(activeProposals, lastOp.proposalId)

(***************************************************************************)
(* Properties of the active set (ActiveSetSpec)                            *)
(***************************************************************************)
\* The step ended in a collectVote call for proposal id that reached quorum,
\* delivered from outside or cast by the proposer at the end of its call.
quorumReachedFor(op, id) ==
  \/ /\ op.op = "collectVote"
     /\ op.result.success
     /\ op.result.proposalId = id
     /\ op.result.quorumReached
  \/ /\ op.op \in {"proposeSnapshot", "proposeDiff"}
     /\ op.phase = "return"
     /\ op.proposalId = id
     /\ op.selfVote.success
     /\ op.selfVote.quorumReached

\* C40: a proposal id that is in the active set stays in it across every
\* step except a collectVote call for it that reaches quorum: no reject
\* vote, clock tick, heartbeat, sweep, election, other propose call or
\* change of the participants removes it.
C40_OnlyQuorumRemovesProposal ==
  [][\A id \in DOMAIN activeProposals :
       MapHas(activeProposals', id) \/ quorumReachedFor(lastOp', id)]_vars

\* C40 witness: a reject vote has just been recorded on a proposal created
\* at an earlier clock reading, a leader has been elected since, and the
\* proposal is still active.
C40_RejectedProposalStillActive ==
  /\ lastOp.op = "collectVote"
  /\ lastOp.result.success
  /\ lastOp.result.vote = "reject"
  /\ ~lastOp.result.quorumReached
  /\ MapHas(activeProposals, lastOp.proposalId)
  /\ activeProposals[lastOp.proposalId].timestamp < now
  /\ leader # NullLeader

====
